---- MODULE Spec2Model ----
(***************************************************************************)
(* Multi-agent meeting scheduler: the orchestrator's /schedule-meeting     *)
(* handler (src/src/agents/host_agent/entry.py and src/src/main.py), the   *)
(* scheduler service's slot search (scheduler_agent.py and its entry.py)   *)
(* and the calendar service's /create-meeting (calendar_agent.py and its   *)
(* entry.py).                                                              *)
(*                                                                         *)
(* Time is counted in minutes of wall-clock time from Monday 00:00 of the  *)
(* week in which a search starts.  A pytz-aware datetime keeps the UTC     *)
(* offset it was created with under timedelta arithmetic, so a local time  *)
(* L in a zone of offset Off denotes the instant L - Off.                  *)
(***************************************************************************)
EXTENDS Integers, Sequences, FiniteSets, TLC

VARIABLES
    \* ---- orchestrator (/schedule-meeting), one entry per request ----
    impl,        \* which application serves the request: "host" or "main"
    request,     \* the request body, with the client-supplied updates
    pc,          \* position of the handler coroutine
    updates,     \* the handler's local list `updates`
    inflight,    \* delegate calls awaiting a reply: {<<delegate, request>>}
    calls,       \* per request: the delegate calls made so far, in call order
    schedData,   \* per request: scheduler_data as received (Option)
    calData,     \* per request: calendar_data as received (Option)
    calArg,      \* per request: the slot posted to /create-meeting (Option)
    response     \* per request: the ScheduleMeetingResponse returned (Option)

orchVars == <<impl, request, pc, updates, inflight, calls, schedData, calData,
              calArg, response>>

VARIABLES
    \* ---- scheduler service (SchedulerAgent and its /schedule endpoint) ----
    calendar_available, \* SchedulerAgent.calendar_available
    busy,          \* the provider's busy intervals per calendar, in UTC minutes
    sreq,          \* the request: via, participants, duration_minutes, timezone
    now,           \* what datetime.now(tz) returns, as local wall-clock minutes
    spc,           \* position in the request's handling
    current_time,  \* find_next_available_time.current_time (local minutes)
    end_time,      \* find_next_available_time.end_time (local minutes)
    checked,       \* candidates handed to _check_availability so far
    lookups,       \* number of get_free_busy calls made to the provider
    visited,       \* the values current_time has taken in the loop
    last_check,    \* the last _check_availability call and its answer (Option)
    result,        \* the dict find_next_available_time returned (Option)
    sresp,         \* the ScheduleResponse of /schedule (Option)
    runs,          \* requests the service has finished before this one
    earlier        \* results of the earlier runs in which no lookup raised

schedVars == <<calendar_available, busy, sreq, now, spc, current_time, end_time,
               checked, lookups, visited, last_check, result, sresp, runs, earlier>>

VARIABLES
    \* ---- calendar service (CalendarAgent and its /create-meeting endpoint) ----
    cal_available,   \* CalendarAgent.calendar_available
    cpc,             \* "boot", "idle" (awaiting a request) or "responded"
    creq,            \* the CreateMeetingRequest being served (Option)
    cresp,           \* the CreateMeetingResponse to it (Option)
    cpath,           \* the return statement of create_meeting that was taken
    provider_calls,  \* calls of calendar_service.create_event so far
    served,          \* requests answered so far
    clock            \* datetime.now().timestamp(), as a counter

calVars == <<cal_available, cpc, creq, cresp, cpath, provider_calls, served, clock>>

VARIABLES
    \* ---- task manager (OrchestratorAgent and OrchestratorTaskManager) ----
    connectors,     \* OrchestratorAgent.connectors: the registered names (Option)
    tasks,          \* the task store: task id -> Task (Option)
    lock,           \* the task manager's lock: the send holding it, or 0
    tpc,            \* per send: position in on_send_task
    tsend,          \* per send: the task id of its request
    response_text,  \* per send: what agent.invoke returned (Option)
    delegation      \* per send: the _delegate_task call made in invoke (Option)

taskVars == <<connectors, tasks, lock, tpc, tsend, response_text, delegation>>

VARIABLES
    \* ---- recurring meetings (create_recurring_meeting / _event) ----
    rpc,            \* position in create_recurring_meeting / create_recurring_event
    rreq,           \* the arguments of create_recurring_meeting
    rec_end_time,   \* end_time of create_recurring_meeting (line 200)
    base_date,      \* base_date of create_recurring_event
    week,           \* the outer loop's week
    day_index,      \* the inner loop's position in preferred_days (from 1)
    events,         \* the event bodies handed to events().insert, in order
    created_events, \* created_events of create_recurring_event
    revent,         \* what create_recurring_event returned (Option)
    rraised,        \* the exception that left the call (Option)
    rresult         \* what create_recurring_meeting returned (Option)

recVars == <<rpc, rreq, rec_end_time, base_date, week, day_index, events,
             created_events, revent, rraised, rresult>>

VARIABLES
    \* ---- SchedulerAgent.get_participant_availability ----
    apc,                 \* position in get_participant_availability
    areq,                \* its arguments: participant, start_date, end_date
    avail_busy_slots,    \* busy_slots: what the gateway reported
    avail_current_time,  \* current_time of get_participant_availability
    slot_index,          \* the loop's position in busy_slots (from 1)
    available_slots,     \* available_slots
    aresult              \* the list returned (Option)

availVars == <<apc, areq, avail_busy_slots, avail_current_time, slot_index,
               available_slots, aresult>>

vars == <<orchVars, schedVars, calVars, taskVars, recVars, availVars>>

\* What the actions of one service leave alone
restOfOrch == <<schedVars, calVars, taskVars, recVars, availVars>>
restOfSched == <<orchVars, calVars, taskVars, recVars, availVars>>
restOfCal == <<orchVars, schedVars, taskVars, recVars, availVars>>
restOfTask == <<orchVars, schedVars, calVars, recVars, availVars>>
restOfRec == <<orchVars, schedVars, calVars, taskVars, availVars>>
restOfAvail == <<orchVars, calVars, taskVars, recVars>>

\* ---------------------------------------------------------------------------
\* Optional values: a missing key / None is <<>>, a present value v is <<v>>.
None == <<>>
Some(v) == <<v>>
IsSome(o) == o # <<>>
The(o) == o[1]

SeqRange(s) == { s[i] : i \in 1..Len(s) }

\* ---------------------------------------------------------------------------
\* Bounds of the model
NumRequests == 2

Requests == 1..NumRequests

\* The tasks/send requests the task manager serves, and the task ids they name
NumSends == 2

Senders == 1..NumSends

TaskIds == {"t1", "t2"}

\* The requests one run of the scheduler service answers
MaxRuns == 2

\* ---------------------------------------------------------------------------
\* Orchestrator: delegate replies
\*
\* A delegate call either raises in the handler (client.post raises on a
\* transport failure, or .json() raises on a body that is no JSON document) or
\* yields a status code and a JSON object.  A key the object lacks is None.

SlotChoices == { [start |-> 600, end |-> 630], [start |-> 960, end |-> 1020] }

SchedulerBodies ==
    { [success |-> Some(TRUE), message |-> Some("Available time slot found"),
       start_time |-> Some(s.start), end_time |-> Some(s.end)] : s \in SlotChoices }
    \cup
    { [success |-> Some(FALSE), message |-> Some(m),
       start_time |-> None, end_time |-> None] :
         m \in {"No available time slots found in the next 7 days"} }

CalendarBodies ==
    { [success |-> Some(TRUE), message |-> Some("Meeting created successfully"),
       meeting_id |-> Some(id)] : id \in {"evt1", "mock_meeting_1"} }
    \cup
    { [success |-> Some(FALSE), message |-> Some("Error creating meeting: boom"),
       meeting_id |-> None] }

Fault == [kind |-> "fault"]
Reply(code, body) == [kind |-> "response", status_code |-> code, body |-> body]

\* The body FastAPI sends with an error status ({"detail": ...}): no success,
\* no message.
SchedulerErrorBody ==
    [success |-> None, message |-> None, start_time |-> None, end_time |-> None]

CalendarErrorBody == [success |-> None, message |-> None, meeting_id |-> None]

SchedulerReplies ==
    {Fault}
    \cup { Reply(200, b) : b \in SchedulerBodies }
    \cup { Reply(500, SchedulerErrorBody) }
    \cup { Reply(500, b) : b \in {x \in SchedulerBodies : x.start_time = Some(600)} }

CalendarReplies ==
    {Fault}
    \cup { Reply(200, b) : b \in CalendarBodies }
    \cup { Reply(500, CalendarErrorBody) }
    \cup { Reply(500, b) : b \in {x \in CalendarBodies : x.meeting_id = Some("evt1")} }

\* dict.get(key): the value or None; truthiness of that value
Truthy(o) == IsSome(o) /\ The(o) = TRUE

\* dict.get("message", default)
GetOr(o, default) == IF IsSome(o) THEN The(o) ELSE default

\* ---------------------------------------------------------------------------
\* Orchestrator: records

ClientUpdate ==
    [agent_id |-> "client", type |-> "text", content |-> Some("earlier note"),
     error |-> None, start_time |-> None, end_time |-> None,
     meeting_id |-> None, status |-> None]

TextUpdate(agent, text, err) ==
    [agent_id |-> agent, type |-> "text", content |-> Some(text),
     error |-> err, start_time |-> None, end_time |-> None,
     meeting_id |-> None, status |-> None]

\* Mutant: the scheduler's record does not carry the slot
SlotUpdate_withoutSlot(agent, st, en) ==
    [agent_id |-> agent, type |-> "data", content |-> None,
     error |-> None, start_time |-> None, end_time |-> None,
     meeting_id |-> None, status |-> None]

SlotUpdate(agent, st, en) ==
    [agent_id |-> agent, type |-> "data", content |-> None,
     error |-> None, start_time |-> st, end_time |-> en,
     meeting_id |-> None, status |-> None]

MeetingUpdate(agent, id) ==
    [agent_id |-> agent, type |-> "data", content |-> None,
     error |-> None, start_time |-> None, end_time |-> None,
     meeting_id |-> id, status |-> Some("created")]

ScheduleMeetingResponse(ok, msg, id, st, en, upd) ==
    [success |-> ok, message |-> msg, meeting_id |-> id,
     start_time |-> st, end_time |-> en, updates |-> upd]

\* ---------------------------------------------------------------------------
\* Orchestrator: the handler, one action per stretch between two awaits

\* Mutant: the status code is not looked at
DelegateFailed_ignoresStatus(reply) ==
    ~Truthy(reply.body.success)

\* `status_code != 200 or not data.get("success")`
DelegateFailed(reply) ==
    reply.status_code # 200 \/ ~Truthy(reply.body.success)

\* Mutant: both delegates are posted to at once
HostCallScheduler_bothAtOnce(r) ==
    /\ impl[r] = "host"
    /\ pc[r] = "start"
    /\ updates' = [updates EXCEPT ![r] = request[r].updates]
    /\ inflight' = inflight \cup {<<"scheduler", r>>, <<"calendar", r>>}
    /\ calls' = [calls EXCEPT ![r] = Append(Append(@, "scheduler"), "calendar")]
    /\ pc' = [pc EXCEPT ![r] = "await_scheduler"]
    /\ UNCHANGED <<impl, request, schedData, calData, calArg, response>>
    /\ UNCHANGED restOfOrch

\* Mutant: before the POST the handler waits for an acknowledgement that
\* nothing sends
HostCallScheduler_waitsForAck(r) ==
    /\ impl[r] = "host"
    /\ pc[r] = "start"
    /\ updates' = [updates EXCEPT ![r] = request[r].updates]
    /\ pc' = [pc EXCEPT ![r] = "await_ack"]
    /\ UNCHANGED <<impl, request, inflight, calls, schedData, calData, calArg, response>>
    /\ UNCHANGED restOfOrch

\* entry.py: updates = request.updates or [];  then the POST to /schedule
HostCallScheduler(r) ==
    /\ impl[r] = "host"
    /\ pc[r] = "start"
    /\ updates' = [updates EXCEPT ![r] = request[r].updates]
    /\ inflight' = inflight \cup {<<"scheduler", r>>}
    /\ calls' = [calls EXCEPT ![r] = Append(@, "scheduler")]
    /\ pc' = [pc EXCEPT ![r] = "await_scheduler"]
    /\ UNCHANGED <<impl, request, schedData, calData, calArg, response>>
    /\ UNCHANGED restOfOrch

\* entry.py: the POST to /schedule raises, or its body does not parse
HostSchedulerRaises(r) ==
    /\ impl[r] = "host"
    /\ pc[r] = "await_scheduler"
    /\ inflight' = inflight \ {<<"scheduler", r>>}
    /\ pc' = [pc EXCEPT ![r] = "raised"]
    /\ UNCHANGED <<impl, request, updates, calls, schedData, calData, calArg, response>>
    /\ UNCHANGED restOfOrch

\* Mutant: a failed call to the scheduler is posted again
HostSchedulerFailed_retries(r, reply) ==
    /\ impl[r] = "host"
    /\ pc[r] = "await_scheduler"
    /\ DelegateFailed(reply)
    /\ Len(calls[r]) < 3
    /\ schedData' = [schedData EXCEPT ![r] = Some(reply)]
    /\ calls' = [calls EXCEPT ![r] = Append(@, "scheduler")]
    /\ UNCHANGED <<impl, request, pc, updates, inflight, calData, calArg, response>>
    /\ UNCHANGED restOfOrch

\* entry.py: the scheduler's reply is a failure: record it and return
HostSchedulerFailed(r, reply) ==
    /\ impl[r] = "host"
    /\ pc[r] = "await_scheduler"
    /\ DelegateFailed(reply)
    /\ inflight' = inflight \ {<<"scheduler", r>>}
    /\ schedData' = [schedData EXCEPT ![r] = Some(reply)]
    /\ LET upd == Append(updates[r],
                    TextUpdate("scheduler", "Failed to find available time slot",
                               reply.body.message))
       IN /\ updates' = [updates EXCEPT ![r] = upd]
          /\ response' = [response EXCEPT ![r] =
                Some(ScheduleMeetingResponse(FALSE,
                        GetOr(reply.body.message, "No available time slot found."),
                        None, None, None, upd))]
    /\ pc' = [pc EXCEPT ![r] = "done"]
    /\ UNCHANGED <<impl, request, calls, calData, calArg>>
    /\ UNCHANGED restOfOrch

\* entry.py: the scheduler resolved a slot: record it, then POST /create-meeting
HostCallCalendar(r, reply) ==
    /\ impl[r] = "host"
    /\ pc[r] = "await_scheduler"
    /\ ~DelegateFailed(reply)
    /\ inflight' = (inflight \ {<<"scheduler", r>>}) \cup {<<"calendar", r>>}
    /\ schedData' = [schedData EXCEPT ![r] = Some(reply)]
    /\ updates' = [updates EXCEPT ![r] =
            Append(@, SlotUpdate("scheduler", reply.body.start_time, reply.body.end_time))]
    /\ calls' = [calls EXCEPT ![r] = Append(@, "calendar")]
    /\ calArg' = [calArg EXCEPT ![r] =
            Some([start_time |-> reply.body.start_time, end_time |-> reply.body.end_time])]
    /\ pc' = [pc EXCEPT ![r] = "await_calendar"]
    /\ UNCHANGED <<impl, request, calData, response>>
    /\ UNCHANGED restOfOrch

\* entry.py: the POST to /create-meeting raises, or its body does not parse
HostCalendarRaises(r) ==
    /\ impl[r] = "host"
    /\ pc[r] = "await_calendar"
    /\ inflight' = inflight \ {<<"calendar", r>>}
    /\ pc' = [pc EXCEPT ![r] = "raised"]
    /\ UNCHANGED <<impl, request, updates, calls, schedData, calData, calArg, response>>
    /\ UNCHANGED restOfOrch

\* Mutant: the failure response passes on the meeting_id of the reply
HostCalendarFailed_keepsId(r, reply) ==
    /\ impl[r] = "host"
    /\ pc[r] = "await_calendar"
    /\ DelegateFailed(reply)
    /\ inflight' = inflight \ {<<"calendar", r>>}
    /\ calData' = [calData EXCEPT ![r] = Some(reply)]
    /\ LET upd == Append(updates[r],
                    TextUpdate("calendar", "Failed to create meeting",
                               reply.body.message))
       IN /\ updates' = [updates EXCEPT ![r] = upd]
          /\ response' = [response EXCEPT ![r] =
                Some(ScheduleMeetingResponse(FALSE,
                        GetOr(reply.body.message, "Failed to create meeting."),
                        reply.body.meeting_id, None, None, upd))]
    /\ pc' = [pc EXCEPT ![r] = "done"]
    /\ UNCHANGED <<impl, request, calls, schedData, calArg>>
    /\ UNCHANGED restOfOrch

\* entry.py: the calendar's reply is a failure: record it and return
HostCalendarFailed(r, reply) ==
    /\ impl[r] = "host"
    /\ pc[r] = "await_calendar"
    /\ DelegateFailed(reply)
    /\ inflight' = inflight \ {<<"calendar", r>>}
    /\ calData' = [calData EXCEPT ![r] = Some(reply)]
    /\ LET upd == Append(updates[r],
                    TextUpdate("calendar", "Failed to create meeting",
                               reply.body.message))
       IN /\ updates' = [updates EXCEPT ![r] = upd]
          /\ response' = [response EXCEPT ![r] =
                Some(ScheduleMeetingResponse(FALSE,
                        GetOr(reply.body.message, "Failed to create meeting."),
                        None, None, None, upd))]
    /\ pc' = [pc EXCEPT ![r] = "done"]
    /\ UNCHANGED <<impl, request, calls, schedData, calArg>>
    /\ UNCHANGED restOfOrch

\* Mutant: the resolved slot is kept in one place shared by all requests,
\* which holds the reply of the lowest-numbered request that has one
HostSucceeded_sharedSlot(r, reply) ==
    /\ impl[r] = "host"
    /\ pc[r] = "await_calendar"
    /\ ~DelegateFailed(reply)
    /\ inflight' = inflight \ {<<"calendar", r>>}
    /\ calData' = [calData EXCEPT ![r] = Some(reply)]
    /\ LET upd == Append(updates[r], MeetingUpdate("calendar", reply.body.meeting_id))
           q   == CHOOSE x \in Requests :
                    /\ IsSome(schedData[x])
                    /\ \A y \in Requests : IsSome(schedData[y]) => x <= y
           sd  == The(schedData[q]).body
       IN /\ updates' = [updates EXCEPT ![r] = upd]
          /\ response' = [response EXCEPT ![r] =
                Some(ScheduleMeetingResponse(TRUE, "Meeting scheduled successfully.",
                        reply.body.meeting_id, sd.start_time, sd.end_time, upd))]
    /\ pc' = [pc EXCEPT ![r] = "done"]
    /\ UNCHANGED <<impl, request, calls, schedData, calArg>>
    /\ UNCHANGED restOfOrch

\* entry.py: the meeting was created: record it and return the aggregate
HostSucceeded(r, reply) ==
    /\ impl[r] = "host"
    /\ pc[r] = "await_calendar"
    /\ ~DelegateFailed(reply)
    /\ inflight' = inflight \ {<<"calendar", r>>}
    /\ calData' = [calData EXCEPT ![r] = Some(reply)]
    /\ LET upd == Append(updates[r], MeetingUpdate("calendar", reply.body.meeting_id))
           sd  == The(schedData[r]).body
       IN /\ updates' = [updates EXCEPT ![r] = upd]
          /\ response' = [response EXCEPT ![r] =
                Some(ScheduleMeetingResponse(TRUE, "Meeting scheduled successfully.",
                        reply.body.meeting_id, sd.start_time, sd.end_time, upd))]
    /\ pc' = [pc EXCEPT ![r] = "done"]
    /\ UNCHANGED <<impl, request, calls, schedData, calArg>>
    /\ UNCHANGED restOfOrch

\* ---------------------------------------------------------------------------
\* main.py: the same protocol; the handler keeps no updates trace

MainCallScheduler(r) ==
    /\ impl[r] = "main"
    /\ pc[r] = "start"
    /\ inflight' = inflight \cup {<<"scheduler", r>>}
    /\ calls' = [calls EXCEPT ![r] = Append(@, "scheduler")]
    /\ pc' = [pc EXCEPT ![r] = "await_scheduler"]
    /\ UNCHANGED <<impl, request, updates, schedData, calData, calArg, response>>
    /\ UNCHANGED restOfOrch

MainSchedulerRaises(r) ==
    /\ impl[r] = "main"
    /\ pc[r] = "await_scheduler"
    /\ inflight' = inflight \ {<<"scheduler", r>>}
    /\ pc' = [pc EXCEPT ![r] = "raised"]
    /\ UNCHANGED <<impl, request, updates, calls, schedData, calData, calArg, response>>
    /\ UNCHANGED restOfOrch

MainSchedulerFailed(r, reply) ==
    /\ impl[r] = "main"
    /\ pc[r] = "await_scheduler"
    /\ DelegateFailed(reply)
    /\ inflight' = inflight \ {<<"scheduler", r>>}
    /\ schedData' = [schedData EXCEPT ![r] = Some(reply)]
    /\ response' = [response EXCEPT ![r] =
            Some(ScheduleMeetingResponse(FALSE,
                    GetOr(reply.body.message, "No available time slot found."),
                    None, None, None, None))]
    /\ pc' = [pc EXCEPT ![r] = "done"]
    /\ UNCHANGED <<impl, request, updates, calls, calData, calArg>>
    /\ UNCHANGED restOfOrch

MainCallCalendar(r, reply) ==
    /\ impl[r] = "main"
    /\ pc[r] = "await_scheduler"
    /\ ~DelegateFailed(reply)
    /\ inflight' = (inflight \ {<<"scheduler", r>>}) \cup {<<"calendar", r>>}
    /\ schedData' = [schedData EXCEPT ![r] = Some(reply)]
    /\ calls' = [calls EXCEPT ![r] = Append(@, "calendar")]
    /\ calArg' = [calArg EXCEPT ![r] =
            Some([start_time |-> reply.body.start_time, end_time |-> reply.body.end_time])]
    /\ pc' = [pc EXCEPT ![r] = "await_calendar"]
    /\ UNCHANGED <<impl, request, updates, calData, response>>
    /\ UNCHANGED restOfOrch

MainCalendarRaises(r) ==
    /\ impl[r] = "main"
    /\ pc[r] = "await_calendar"
    /\ inflight' = inflight \ {<<"calendar", r>>}
    /\ pc' = [pc EXCEPT ![r] = "raised"]
    /\ UNCHANGED <<impl, request, updates, calls, schedData, calData, calArg, response>>
    /\ UNCHANGED restOfOrch

MainCalendarFailed(r, reply) ==
    /\ impl[r] = "main"
    /\ pc[r] = "await_calendar"
    /\ DelegateFailed(reply)
    /\ inflight' = inflight \ {<<"calendar", r>>}
    /\ calData' = [calData EXCEPT ![r] = Some(reply)]
    /\ response' = [response EXCEPT ![r] =
            Some(ScheduleMeetingResponse(FALSE,
                    GetOr(reply.body.message, "Failed to create meeting."),
                    None, None, None, None))]
    /\ pc' = [pc EXCEPT ![r] = "done"]
    /\ UNCHANGED <<impl, request, updates, calls, schedData, calArg>>
    /\ UNCHANGED restOfOrch

MainSucceeded(r, reply) ==
    /\ impl[r] = "main"
    /\ pc[r] = "await_calendar"
    /\ ~DelegateFailed(reply)
    /\ inflight' = inflight \ {<<"calendar", r>>}
    /\ calData' = [calData EXCEPT ![r] = Some(reply)]
    /\ LET sd == The(schedData[r]).body
       IN response' = [response EXCEPT ![r] =
            Some(ScheduleMeetingResponse(TRUE, "Meeting scheduled successfully.",
                    reply.body.meeting_id, sd.start_time, sd.end_time, None))]
    /\ pc' = [pc EXCEPT ![r] = "done"]
    /\ UNCHANGED <<impl, request, updates, calls, schedData, calArg>>
    /\ UNCHANGED restOfOrch

\* ===========================================================================
\* Scheduler service

\* Program constants of the search
BusinessStartHour == 9
BusinessEndHour == 17
StepMinutes == 30
HorizonDays == 7
FirstWeekendDay == 5

MinutesPerHour == 60
MinutesPerDay == 24 * MinutesPerHour

\* datetime.hour and datetime.weekday() of a local time (0 = Monday)
Hour(t) == (t % MinutesPerDay) \div MinutesPerHour

\* Mutant: days are counted from Sunday
Weekday_fromSunday(t) == ((t \div MinutesPerDay) + 1) % 7

Weekday(t) == (t \div MinutesPerDay) % 7

\* pytz.timezone(name): the zone's UTC offset in minutes, or no such zone
KnownZones == {"UTC", "America/New_York"}
ZoneNames == KnownZones \cup {"Mars/Phobos"}
UtcOffset(tz) == IF tz = "UTC" THEN 0 ELSE 0 - 5 * MinutesPerHour

\* The instant (UTC minutes) an aware local datetime denotes: what Python
\* compares when two aware datetimes of different zones are compared.
Instant(t, tz) == t - UtcOffset(tz)

\* current_time.isoformat() and datetime.fromisoformat(...) of an aware
\* datetime: the wall-clock reading together with its UTC offset
IsoFormat(t, tz) == [wall |-> t, utcoffset |-> UtcOffset(tz)]
FromIsoFormat(iso) == iso.wall
IsoInstant(iso) == iso.wall - iso.utcoffset

\* GoogleCalendarService.get_free_busy: the 'calendars' object of the answer,
\* one entry per attendee the provider knows, with the busy intervals that
\* meet the queried window [time_min, time_max].
KnownCalendars == {"a", "b"}

get_free_busy(time_min, time_max, attendees) ==
    [p \in SeqRange(attendees) \cap KnownCalendars |->
        SelectSeq(busy[p], LAMBDA b : b.start <= time_max /\ b.end >= time_min)]

\* Mutant: touching intervals count as conflicts
Overlaps_closed(start, end, slot) ==
    start <= slot.end /\ end >= slot.start

\* Mutant: a candidate starting where a busy interval ends is a conflict
Overlaps_startTouch(start, end, slot) ==
    start <= slot.end /\ end > slot.start

\* `start_time < slot_end and end_time > slot_start`, on instants
Overlaps(start, end, slot) ==
    start < slot.end /\ end > slot.start

\* The loops of _check_availability over participants and their busy slots:
\* False on the first overlapping slot, True when the loops run out.
RECURSIVE SlotsFree(_, _, _, _)
SlotsFree(busy_slots, i, start, end) ==
    IF i > Len(busy_slots) THEN TRUE
    ELSE IF Overlaps(start, end, busy_slots[i]) THEN FALSE
    ELSE SlotsFree(busy_slots, i + 1, start, end)

RECURSIVE ParticipantsFree(_, _, _, _, _)
ParticipantsFree(free_busy, participants, k, start, end) ==
    IF k > Len(participants) THEN TRUE
    ELSE IF participants[k] \in DOMAIN free_busy
            /\ ~SlotsFree(free_busy[participants[k]], 1, start, end)
         THEN FALSE
    ELSE ParticipantsFree(free_busy, participants, k + 1, start, end)

\* Mutant: the answer when the gateway is unavailable or the lookup raised
AssumeAvailable_refuses == FALSE

\* `return True` of the two degraded branches of _check_availability
AssumeAvailable == TRUE

\* SchedulerAgent._check_availability(participants, start_time, end_time);
\* start and end are instants, lookup is "ok" or "raise" (get_free_busy raised)
_check_availability(participants, start, end, lookup) ==
    IF ~calendar_available THEN AssumeAvailable
    ELSE IF lookup = "raise" THEN AssumeAvailable
    ELSE ParticipantsFree(get_free_busy(start, end, participants),
                          participants, 1, start, end)


\* ---------------------------------------------------------------------------
\* Scheduler service: messages are kept as the sequence of the pieces the code
\* concatenates.
SchedulingNote == " (Calendar service is not available - using default scheduling)"
UnavailableNote == " (Calendar service is not available)"

NoSlotResult ==
    [status |-> "error", available_time |-> None,
     message |-> <<"No available time slots found in the next 7 days">>]

ErrorResult(why) ==
    [status |-> "error", available_time |-> None,
     message |-> <<"Error finding available time: ", why>>]

SuccessResult(t, tz) ==
    [status |-> "success", available_time |-> Some(IsoFormat(t, tz)),
     message |-> <<>>]

ScheduleResponse(ok, msg, st, en) ==
    [success |-> ok, message |-> msg, start_time |-> st, end_time |-> en]

\* SchedulerAgent.__init__: GoogleCalendarService(...) authenticates; when
\* that raises, for a missing credentials file or anything else, the flag is
\* set False
SchedulerAgentInit(auth) ==
    /\ spc = "boot"
    /\ calendar_available' = (auth = "ok")
    /\ spc' = "request"
    /\ UNCHANGED <<busy, sreq, now, current_time, end_time, checked, lookups,
                   visited, last_check, result, sresp, runs, earlier>>
    /\ UNCHANGED restOfSched

\* No lookup of the finished search raised: the search is over with the
\* gateway unavailable, or its last lookup was answered (and then so were
\* all those before it, which said "busy")
AllLookupsAnswered ==
    IsSome(last_check) => (~calendar_available \/ The(last_check).with_data)

\* The same request arrives again, with the clock reading the same: the
\* locals of the finished call are gone, the agent's attributes stay
ScheduleAgain ==
    /\ \/ spc = "responded"
       \/ spc = "returned" /\ sreq.via = "handle_task"
    /\ runs + 1 < MaxRuns
    /\ runs' = runs + 1
    /\ earlier' = IF IsSome(result) /\ AllLookupsAnswered
                  THEN Append(earlier, The(result))
                  ELSE earlier
    /\ spc' = "request"
    /\ current_time' = 0
    /\ end_time' = 0
    /\ checked' = {}
    /\ lookups' = 0
    /\ visited' = {}
    /\ last_check' = None
    /\ result' = None
    /\ sresp' = None
    /\ UNCHANGED <<calendar_available, busy, sreq, now>>
    /\ UNCHANGED restOfSched

\* entry.py /schedule: the timezone is validated before the search is called
ScheduleValidate ==
    /\ spc = "request"
    /\ sreq.via = "schedule"
    /\ IF sreq.timezone \notin KnownZones
       THEN /\ sresp' = Some(ScheduleResponse(FALSE,
                                <<"Invalid timezone: ", sreq.timezone>>, None, None))
            /\ spc' = "responded"
       ELSE /\ spc' = "find"
            /\ UNCHANGED sresp
    /\ UNCHANGED <<calendar_available, busy, sreq, now, current_time, end_time,
                   checked, lookups, visited, last_check, result>>
    /\ UNCHANGED <<runs, earlier>>
    /\ UNCHANGED restOfSched

\* SchedulerAgent.handle_task with action 'find_available_time'
HandleTask ==
    /\ spc = "request"
    /\ sreq.via = "handle_task"
    /\ spc' = "find"
    /\ UNCHANGED <<calendar_available, busy, sreq, now, current_time, end_time,
                   checked, lookups, visited, last_check, result, sresp>>
    /\ UNCHANGED <<runs, earlier>>
    /\ UNCHANGED restOfSched

\* find_next_available_time, lines 102-107: tz, current_time, end_time;
\* pytz.timezone raising is caught by the function's except clause
FindStart ==
    /\ spc = "find"
    /\ IF sreq.timezone \notin KnownZones
       THEN /\ result' = Some(ErrorResult(sreq.timezone))
            /\ spc' = "returned"
            /\ UNCHANGED <<current_time, end_time, visited>>
       ELSE /\ current_time' = now
            /\ end_time' = now + HorizonDays * MinutesPerDay
            /\ visited' = {now}
            /\ spc' = "loop"
            /\ UNCHANGED result
    /\ UNCHANGED <<calendar_available, busy, sreq, now, checked, lookups, last_check, sresp>>
    /\ UNCHANGED <<runs, earlier>>
    /\ UNCHANGED restOfSched

\* `while current_time < end_time` is false: no slot in the horizon
LoopExit ==
    /\ spc = "loop"
    /\ ~(current_time < end_time)
    /\ result' = Some(NoSlotResult)
    /\ spc' = "returned"
    /\ UNCHANGED <<calendar_available, busy, sreq, now, current_time, end_time,
                   checked, lookups, visited, last_check, sresp>>
    /\ UNCHANGED <<runs, earlier>>
    /\ UNCHANGED restOfSched

\* Mutant: 17:xx still counts as a business hour
NonBusinessHour_lateEnd(t) == Hour(t) < BusinessStartHour \/ Hour(t) > BusinessEndHour

\* `current_time.hour < 9 or current_time.hour >= 17`
NonBusinessHour(t) == Hour(t) < BusinessStartHour \/ Hour(t) >= BusinessEndHour

\* lines 111-113: outside 9-17, step 30 minutes
SkipNonBusinessHours ==
    /\ spc = "loop"
    /\ current_time < end_time
    /\ NonBusinessHour(current_time)
    /\ current_time' = current_time + StepMinutes
    /\ visited' = visited \cup {current_time'}
    /\ UNCHANGED <<calendar_available, busy, sreq, now, spc, end_time,
                   checked, lookups, last_check, result, sresp>>
    /\ UNCHANGED <<runs, earlier>>
    /\ UNCHANGED restOfSched

\* Mutant: the day is not advanced before the time is reset to 09:00
NextDayAtNine_sameDay(t) ==
    (t \div MinutesPerDay) * MinutesPerDay + BusinessStartHour * MinutesPerHour

\* current_time += timedelta(days=1); replace(hour=9, minute=0, ...)
NextDayAtNine(t) ==
    ((t + MinutesPerDay) \div MinutesPerDay) * MinutesPerDay
        + BusinessStartHour * MinutesPerHour

\* Mutant: a weekend candidate is stepped over like an off-hours one
SkipWeekend_steps ==
    /\ spc = "loop"
    /\ current_time < end_time
    /\ ~NonBusinessHour(current_time)
    /\ Weekday(current_time) >= FirstWeekendDay
    /\ current_time' = current_time + StepMinutes
    /\ visited' = visited \cup {current_time'}
    /\ UNCHANGED <<calendar_available, busy, sreq, now, spc, end_time,
                   checked, lookups, last_check, result, sresp>>
    /\ UNCHANGED <<runs, earlier>>
    /\ UNCHANGED restOfSched

\* lines 116-119: a weekend day inside 9-17 jumps to the next day at 09:00
SkipWeekend ==
    /\ spc = "loop"
    /\ current_time < end_time
    /\ ~NonBusinessHour(current_time)
    /\ Weekday(current_time) >= FirstWeekendDay
    /\ current_time' = NextDayAtNine(current_time)
    /\ visited' = visited \cup {current_time'}
    /\ UNCHANGED <<calendar_available, busy, sreq, now, spc, end_time,
                   checked, lookups, last_check, result, sresp>>
    /\ UNCHANGED <<runs, earlier>>
    /\ UNCHANGED restOfSched

\* Mutant: the exception leaves find_next_available_time
EndTimeSlotRaises_escapes ==
    /\ spc = "loop"
    /\ current_time < end_time
    /\ ~NonBusinessHour(current_time)
    /\ Weekday(current_time) < FirstWeekendDay
    /\ sreq.duration_type # "int"
    /\ spc' = "raised"
    /\ UNCHANGED <<calendar_available, busy, sreq, now, current_time, end_time,
                   checked, lookups, visited, last_check, result, sresp>>
    /\ UNCHANGED <<runs, earlier>>
    /\ UNCHANGED restOfSched

\* line 121 with a duration_minutes that is no number: timedelta(minutes=...)
\* raises TypeError, which the except clause of lines 136-140 turns into a
\* result
EndTimeSlotRaises ==
    /\ spc = "loop"
    /\ current_time < end_time
    /\ ~NonBusinessHour(current_time)
    /\ Weekday(current_time) < FirstWeekendDay
    /\ sreq.duration_type # "int"
    /\ result' = Some(ErrorResult("TypeError"))
    /\ spc' = "returned"
    /\ UNCHANGED <<calendar_available, busy, sreq, now, current_time, end_time,
                   checked, lookups, visited, last_check, sresp>>
    /\ UNCHANGED <<runs, earlier>>
    /\ UNCHANGED restOfSched

\* Mutant: a lookup that raises marks the gateway unavailable
CheckCandidate_marksUnavailable(lookup) ==
    /\ spc = "loop"
    /\ current_time < end_time
    /\ ~NonBusinessHour(current_time)
    /\ Weekday(current_time) < FirstWeekendDay
    /\ sreq.duration_type = "int"
    /\ calendar_available \/ lookup = "ok"
    /\ LET end_time_slot == current_time + sreq.duration_minutes
           start == Instant(current_time, sreq.timezone)
           end   == Instant(end_time_slot, sreq.timezone)
           answer == _check_availability(sreq.participants, start, end, lookup)
       IN /\ checked' = checked \cup {current_time}
          /\ lookups' = IF calendar_available THEN lookups + 1 ELSE lookups
          /\ last_check' = Some([start |-> start, end |-> end, answer |-> answer,
                                 with_data |-> calendar_available /\ lookup = "ok"])
          /\ IF answer
             THEN /\ result' = Some(SuccessResult(current_time, sreq.timezone))
                  /\ spc' = "returned"
                  /\ UNCHANGED <<current_time, visited>>
             ELSE /\ current_time' = current_time + StepMinutes
                  /\ visited' = visited \cup {current_time'}
                  /\ UNCHANGED <<result, spc>>
    /\ calendar_available' = (calendar_available /\ lookup = "ok")
    /\ UNCHANGED <<busy, sreq, now, end_time, sresp>>
    /\ UNCHANGED <<runs, earlier>>
    /\ UNCHANGED restOfSched

\* lines 121-130: the candidate is checked; it is returned or stepped over
CheckCandidate(lookup) ==
    /\ spc = "loop"
    /\ current_time < end_time
    /\ ~NonBusinessHour(current_time)
    /\ Weekday(current_time) < FirstWeekendDay
    /\ sreq.duration_type = "int"
    /\ calendar_available \/ lookup = "ok"
    /\ LET end_time_slot == current_time + sreq.duration_minutes
           start == Instant(current_time, sreq.timezone)
           end   == Instant(end_time_slot, sreq.timezone)
           answer == _check_availability(sreq.participants, start, end, lookup)
       IN /\ checked' = checked \cup {current_time}
          /\ lookups' = IF calendar_available THEN lookups + 1 ELSE lookups
          /\ last_check' = Some([start |-> start, end |-> end, answer |-> answer,
                                 with_data |-> calendar_available /\ lookup = "ok"])
          /\ IF answer
             THEN /\ result' = Some(SuccessResult(current_time, sreq.timezone))
                  /\ spc' = "returned"
                  /\ UNCHANGED <<current_time, visited>>
             ELSE /\ current_time' = current_time + StepMinutes
                  /\ visited' = visited \cup {current_time'}
                  /\ UNCHANGED <<result, spc>>
    /\ UNCHANGED <<calendar_available, busy, sreq, now, end_time, sresp>>
    /\ UNCHANGED <<runs, earlier>>
    /\ UNCHANGED restOfSched

\* Mutant: the success response leaves end_time out
ScheduleRespond_noEnd ==
    /\ spc = "returned"
    /\ sreq.via = "schedule"
    /\ LET res == The(result)
           note == IF calendar_available THEN <<>> ELSE <<SchedulingNote>>
       IN IF res.status # "success"
          THEN sresp' = Some(ScheduleResponse(FALSE, res.message \o note, None, None))
          ELSE LET iso == The(res.available_time)
                   start_time == FromIsoFormat(iso)
                   end_t == start_time + sreq.duration_minutes
               IN sresp' = Some(ScheduleResponse(TRUE,
                                <<"Available time slot found">> \o note,
                                Some([wall |-> start_time, utcoffset |-> iso.utcoffset]),
                                None))
    /\ spc' = "responded"
    /\ UNCHANGED <<calendar_available, busy, sreq, now, current_time, end_time,
                   checked, lookups, visited, last_check, result>>
    /\ UNCHANGED <<runs, earlier>>
    /\ UNCHANGED restOfSched

\* entry.py /schedule, lines 65-91: the response built from the result
ScheduleRespond ==
    /\ spc = "returned"
    /\ sreq.via = "schedule"
    /\ LET res == The(result)
           note == IF calendar_available THEN <<>> ELSE <<SchedulingNote>>
       IN IF res.status # "success"
          THEN sresp' = Some(ScheduleResponse(FALSE, res.message \o note, None, None))
          ELSE LET iso == The(res.available_time)
                   start_time == FromIsoFormat(iso)
                   end_t == start_time + sreq.duration_minutes
               IN sresp' = Some(ScheduleResponse(TRUE,
                                <<"Available time slot found">> \o note,
                                Some([wall |-> start_time, utcoffset |-> iso.utcoffset]),
                                Some([wall |-> end_t, utcoffset |-> iso.utcoffset])))
    /\ spc' = "responded"
    /\ UNCHANGED <<calendar_available, busy, sreq, now, current_time, end_time,
                   checked, lookups, visited, last_check, result>>
    /\ UNCHANGED <<runs, earlier>>
    /\ UNCHANGED restOfSched

\* ---------------------------------------------------------------------------
\* Inputs of the scheduler service

\* Bounds: the days the provider's busy data covers, and the last weekday
\* (0 = Monday) on which a search starts
BusyDays == 15
LastNowDay == 6

At(day, hour, minute) == day * MinutesPerDay + hour * MinutesPerHour + minute

NowChoices ==
    { At(d, t[1], t[2]) : d \in 0..LastNowDay,
                          t \in {<<8, 30>>, <<9, 45>>, <<16, 45>>, <<23, 40>>} }

\* Busy patterns, as the provider reports them (UTC)
Daily(h1, m1, h2, m2) ==
    [d \in 1..BusyDays |-> [start |-> At(d - 1, h1, m1), end |-> At(d - 1, h2, m2)]]

BusyNever == <<>>
BusyAlways == << [start |-> At(0, 0, 0) - MinutesPerDay, end |-> At(BusyDays + 7, 0, 0)] >>
BusyMornings == Daily(9, 0, 12, 0)
BusyAtThree == Daily(15, 0, 15, 30)
BusyAtTen == Daily(10, 0, 10, 30)
BusyAfternoons == Daily(13, 0, 15, 30)
BusyFirstWeek == << [start |-> At(0, 0, 0) - MinutesPerDay, end |-> At(7, 12, 0)] >>

BusyChoices ==
    { [p \in KnownCalendars |-> IF p = "a" THEN x ELSE y] :
        x \in {BusyNever, BusyMornings, BusyAtThree, BusyAtTen},
        y \in {BusyNever, BusyAfternoons} }
    \cup
    { [p \in KnownCalendars |-> IF p = "a" THEN x ELSE BusyNever] :
        x \in {BusyAlways, BusyFirstWeek} }

ParticipantChoices == { <<>>, <<"a">>, <<"a", "b">>, <<"c", "b">> }
DurationChoices == {30, 60, 0}

InitSched ==
    \* the orchestrator is at rest
    /\ impl = [r \in Requests |-> "host"]
    /\ request = [r \in Requests |-> [updates |-> <<>>]]
    /\ pc = [r \in Requests |-> "idle"]
    /\ updates = [r \in Requests |-> <<>>]
    /\ inflight = {}
    /\ calls = [r \in Requests |-> <<>>]
    /\ schedData = [r \in Requests |-> None]
    /\ calData = [r \in Requests |-> None]
    /\ calArg = [r \in Requests |-> None]
    /\ response = [r \in Requests |-> None]
    \* the calendar service is at rest
    /\ cal_available = TRUE
    /\ cpc = "off"
    /\ creq = None
    /\ cresp = None
    /\ cpath = "none"
    /\ provider_calls = 0
    /\ served = 0
    /\ clock = 0
    \* the task manager is at rest
    /\ connectors = None
    /\ tasks = [id \in TaskIds |-> None]
    /\ lock = 0
    /\ tpc = [p \in Senders |-> "idle"]
    /\ tsend = [p \in Senders |-> "t1"]
    /\ response_text = [p \in Senders |-> None]
    /\ delegation = [p \in Senders |-> None]
    \* one request to the scheduler service
    /\ calendar_available \in BOOLEAN
    /\ busy \in BusyChoices
    /\ sreq \in [via : {"schedule", "handle_task"},
                 participants : ParticipantChoices,
                 duration_minutes : DurationChoices,
                 duration_type : {"int", "str"},
                 timezone : ZoneNames]
    /\ sreq.via = "handle_task" =>
            sreq.participants = <<"a">> /\ sreq.duration_minutes = 30
    \* /schedule validates the type; task_data of handle_task is any JSON
    /\ sreq.duration_type # "int" => sreq.via = "handle_task"
    /\ sreq.duration_minutes <= 0 =>
            sreq.participants = <<"a">> /\ sreq.timezone = "UTC"
    /\ now \in NowChoices
    /\ spc = "request"
    /\ current_time = 0
    /\ end_time = 0
    /\ checked = {}
    /\ lookups = 0
    /\ visited = {}
    /\ last_check = None
    /\ result = None
    /\ sresp = None
    /\ runs = 0
    /\ earlier = <<>>
    \* no recurring meeting is being created
    /\ rpc = "idle"
    /\ rreq = [start_time |-> 0, duration_minutes |-> 30, preferred_days |-> <<>>,
               weeks |-> 0, tzinfo |-> "naive"]
    /\ rec_end_time = 0
    /\ base_date = 0
    /\ week = 0
    /\ day_index = 1
    /\ events = <<>>
    /\ created_events = <<>>
    /\ revent = None
    /\ rraised = None
    /\ rresult = None
    \* get_participant_availability is not running
    /\ apc = "idle"
    /\ areq = [participant |-> "a", start_date |-> 0, end_date |-> 0]
    /\ avail_busy_slots = <<>>
    /\ avail_current_time = 0
    /\ slot_index = 1
    /\ available_slots = <<>>
    /\ aresult = None

NextSched ==
    \/ ScheduleValidate
    \/ HandleTask
    \/ FindStart
    \/ LoopExit
    \/ SkipNonBusinessHours
    \/ SkipWeekend
    \/ EndTimeSlotRaises
    \/ \E lookup \in {"ok", "raise"} : CheckCandidate(lookup)
    \/ ScheduleRespond

\* The scheduler service answering the same request MaxRuns times
NextSchedAgain ==
    \/ ScheduleValidate
    \/ HandleTask
    \/ FindStart
    \/ LoopExit
    \/ SkipNonBusinessHours
    \/ SkipWeekend
    \/ EndTimeSlotRaises
    \/ \E lookup \in {"ok", "raise"} : CheckCandidate(lookup)
    \/ ScheduleRespond
    \/ ScheduleAgain

\* ===========================================================================
\* Calendar service

\* Bound: the requests one run of the calendar service answers
MaxMeetings == 2

MockNote == " (Calendar service is not available - using mock meeting ID)"

\* f"mock_meeting_{datetime.now().timestamp()}" and event['id']
MockMeetingId(ts) == [prefix |-> "mock_meeting_", n |-> ts]
EventId(n) == [prefix |-> "event_", n |-> n]

CreateMeetingResponse(ok, msg, id) ==
    [success |-> ok, message |-> msg, meeting_id |-> id]

CreateMeetingRequests ==
    { [timezone |-> tz, start_time |-> sl.start, end_time |-> sl.end] :
        tz \in ZoneNames, sl \in SlotChoices }

\* CalendarAgent.__init__: GoogleCalendarService(...) authenticates; when that
\* raises (no credentials file, or any other failure) the flag is set False
CalendarAgentInit(auth) ==
    /\ cpc = "boot"
    /\ cal_available' = (auth = "ok")
    /\ cpc' = "idle"
    /\ UNCHANGED <<creq, cresp, cpath, provider_calls, served, clock>>
    /\ UNCHANGED restOfCal

\* Mutant: the message never mentions the mock identifier
CreatedMessage_plain(available) == <<"Meeting created successfully">>

\* entry.py lines 67-69: the success message, from the flag after the call
CreatedMessage(available) ==
    IF available THEN <<"Meeting created successfully">>
    ELSE <<"Meeting created successfully", MockNote>>

\* /create-meeting with a timezone pytz does not know
CreateMeetingInvalidTimezone(req) ==
    /\ cpc \in {"idle", "responded"}
    /\ served < MaxMeetings
    /\ req.timezone \notin KnownZones
    /\ creq' = Some(req)
    /\ cresp' = Some(CreateMeetingResponse(FALSE,
                        <<"Invalid timezone: ", req.timezone>>, None))
    /\ cpath' = "invalid_timezone"
    /\ cpc' = "responded"
    /\ served' = served + 1
    /\ UNCHANGED <<cal_available, provider_calls, clock>>
    /\ UNCHANGED restOfCal

\* Mutant: serving a request with a mock id marks the gateway available again
CreateMeetingUnavailable_recovers(req) ==
    /\ cpc \in {"idle", "responded"}
    /\ served < MaxMeetings
    /\ req.timezone \in KnownZones
    /\ ~cal_available
    /\ creq' = Some(req)
    /\ cresp' = Some(CreateMeetingResponse(TRUE, CreatedMessage(cal_available),
                                           Some(MockMeetingId(clock))))
    /\ cpath' = "unavailable"
    /\ cpc' = "responded"
    /\ served' = served + 1
    /\ clock' = clock + 1
    /\ cal_available' = TRUE
    /\ UNCHANGED provider_calls
    /\ UNCHANGED restOfCal

\* /create-meeting, gateway unavailable: create_meeting returns a mock id
CreateMeetingUnavailable(req) ==
    /\ cpc \in {"idle", "responded"}
    /\ served < MaxMeetings
    /\ req.timezone \in KnownZones
    /\ ~cal_available
    /\ creq' = Some(req)
    /\ cresp' = Some(CreateMeetingResponse(TRUE, CreatedMessage(cal_available),
                                           Some(MockMeetingId(clock))))
    /\ cpath' = "unavailable"
    /\ cpc' = "responded"
    /\ served' = served + 1
    /\ clock' = clock + 1
    /\ UNCHANGED <<cal_available, provider_calls>>
    /\ UNCHANGED restOfCal

\* /create-meeting, gateway available: create_event is called; it returns the
\* event, raises FileNotFoundError, or raises something else
CreateMeetingAvailable(req, outcome) ==
    /\ cpc \in {"idle", "responded"}
    /\ served < MaxMeetings
    /\ req.timezone \in KnownZones
    /\ cal_available
    /\ creq' = Some(req)
    /\ provider_calls' = provider_calls + 1
    /\ cal_available' = (outcome # "FileNotFoundError")
    /\ cresp' = Some(CreateMeetingResponse(TRUE, CreatedMessage(cal_available'),
                        IF outcome = "event"
                        THEN Some(EventId(provider_calls + 1))
                        ELSE Some(MockMeetingId(clock))))
    /\ cpath' = outcome
    /\ cpc' = "responded"
    /\ served' = served + 1
    /\ clock' = IF outcome = "event" THEN clock ELSE clock + 1
    /\ UNCHANGED restOfCal

\* ===========================================================================
\* Task manager: OrchestratorAgent and OrchestratorTaskManager.on_send_task

\* TaskState values
Submitted == "submitted"
Working == "working"
Completed == "completed"
Failed == "failed"
TaskError == "error"

Task(status, history) == [status |-> status, history |-> history]

\* The message of a tasks/send request, and the reply on_send_task builds
UserMessage(p) == [role |-> "user", send |-> p, text |-> [kind |-> "query", agent |-> "none"]]
AgentMessage(p, text) == [role |-> "agent", send |-> p, text |-> text]

\* The registries the orchestrator may be constructed with, and the names the
\* language model may pass to delegate_task
AgentNames == {"SchedulerAgent", "CalendarAgent"}
Registries == SUBSET AgentNames

\* The texts _delegate_task returns
ChildReply(agent_name) == [kind |-> "reply", agent |-> agent_name]
NoResponseApology(agent_name) == [kind |-> "no_response", agent |-> agent_name]
ErrorApology(agent_name) == [kind |-> "error", agent |-> agent_name]

\* The text invoke returns when no tool was called: the model's own answer
OwnAnswer == [kind |-> "answer", agent |-> "none"]

\* InMemoryTaskManager.upsert_task: a new task is created in Submitted with
\* the message as its history; an existing one has the message appended
upsert_task(task, message) ==
    IF task = None THEN Task(Submitted, <<message>>)
    ELSE Task(The(task).status, Append(The(task).history, message))

\* OrchestratorAgent.__init__: one connector per card, whatever the cards
OrchestratorAgentInit(agent_cards) ==
    /\ connectors = None
    /\ connectors' = Some(agent_cards)
    /\ UNCHANGED <<tasks, lock, tpc, tsend, response_text, delegation>>
    /\ UNCHANGED restOfTask

\* OrchestratorAgent._delegate_task(agent_name, message): child is what
\* connector.send_task did: "reply", "short_history" or "raise"
_delegate_task(agent_name, child) ==
    IF agent_name \notin The(connectors) THEN ErrorApology(agent_name)
    ELSE IF child = "raise" THEN ErrorApology(agent_name)
    ELSE IF child = "short_history" THEN NoResponseApology(agent_name)
    ELSE ChildReply(agent_name)

\* What one run of the language model does: answer by itself, raise, or call
\* delegate_task once and relay what it returned
InvokePlans ==
    { [tool |-> "none", run |-> r, agent_name |-> "none", child |-> "none"] :
        r \in {"answer", "raise"} }
    \cup
    { [tool |-> "delegate_task", run |-> "answer", agent_name |-> d[1], child |-> d[2]] :
        d \in { <<"SchedulerAgent", "reply">>, <<"SchedulerAgent", "raise">>,
                <<"CalendarAgent", "reply">>, <<"CalendarAgent", "short_history">> } }

\* on_send_task runs on the event loop the lock belongs to, and line 291
\* calls agent.invoke without await: while a send is inside invoke the loop
\* runs no other coroutine
EventLoopFree == \A p \in Senders : tpc[p] # "invoking"

\* on_send_task, step 1: task = await self.upsert_task(request.params);
\* upsert_task takes the lock for its update
OnSendTaskUpsert(p) ==
    /\ IsSome(connectors)
    /\ tpc[p] = "start"
    /\ EventLoopFree
    /\ lock = 0
    /\ tasks' = [tasks EXCEPT ![tsend[p]] = Some(upsert_task(@, UserMessage(p)))]
    /\ tpc' = [tpc EXCEPT ![p] = "invoke"]
    /\ UNCHANGED <<connectors, lock, tsend, response_text, delegation>>
    /\ UNCHANGED restOfTask

\* on_send_task, step 2: self.agent.invoke(...) is called and runs the
\* language model and its delegate calls
OnSendTaskInvokeCall(p) ==
    /\ tpc[p] = "invoke"
    /\ EventLoopFree
    /\ tpc' = [tpc EXCEPT ![p] = "invoking"]
    /\ UNCHANGED <<connectors, tasks, lock, tsend, response_text, delegation>>
    /\ UNCHANGED restOfTask

\* on_send_task, step 2: response_text = self.agent.invoke(...), a
\* synchronous call, returns; an exception of the runner leaves on_send_task
OnSendTaskInvoke(p, plan) ==
    /\ tpc[p] = "invoking"
    /\ IF plan.run = "raise"
       THEN /\ tpc' = [tpc EXCEPT ![p] = "raised"]
            /\ UNCHANGED <<response_text, delegation>>
       ELSE /\ tpc' = [tpc EXCEPT ![p] = "reply"]
            /\ IF plan.tool = "delegate_task"
               THEN /\ delegation' = [delegation EXCEPT ![p] =
                            Some([agent_name |-> plan.agent_name, child |-> plan.child,
                                  known |-> plan.agent_name \in The(connectors)])]
                    /\ response_text' = [response_text EXCEPT ![p] =
                            Some(_delegate_task(plan.agent_name, plan.child))]
               ELSE /\ UNCHANGED delegation
                    /\ response_text' = [response_text EXCEPT ![p] =
                            Some(OwnAnswer)]
    /\ UNCHANGED <<connectors, tasks, lock, tsend>>
    /\ UNCHANGED restOfTask

\* Mutant: the block is entered without taking the lock
LockFree_ignored(p) == TRUE

\* `async with self.lock`: the lock is free, or the send waits
LockFree(p) == lock = 0

\* on_send_task, step 3: under the lock, task.status = COMPLETED.  The two
\* statements under the lock are taken one at a time, so that it is the lock
\* that keeps them together.
OnSendTaskSetStatus(p) ==
    /\ tpc[p] = "reply"
    /\ EventLoopFree
    /\ LockFree(p)
    /\ lock' = p
    /\ tasks' = [tasks EXCEPT ![tsend[p]] =
            Some(Task(Completed, The(@).history))]
    /\ tpc' = [tpc EXCEPT ![p] = "status_set"]
    /\ UNCHANGED <<connectors, tsend, response_text, delegation>>
    /\ UNCHANGED restOfTask

\* Mutant: the reply is put in front of the history
AppendReply_inFront(history, reply) == <<reply>> \o history

\* task.history.append(reply)
AppendReply(history, reply) == Append(history, reply)

\* on_send_task, steps 3-4: task.history.append(reply), the lock is released
\* and the task is returned
OnSendTaskAppend(p) ==
    /\ tpc[p] = "status_set"
    /\ EventLoopFree
    /\ tasks' = [tasks EXCEPT ![tsend[p]] =
            Some(Task(The(@).status,
                      AppendReply(The(@).history,
                                  AgentMessage(p, The(response_text[p])))))]
    /\ lock' = IF lock = p THEN 0 ELSE lock
    /\ tpc' = [tpc EXCEPT ![p] = "done"]
    /\ UNCHANGED <<connectors, tsend, response_text, delegation>>
    /\ UNCHANGED restOfTask

\* ---------------------------------------------------------------------------
InitOrch ==
    \* the scheduler service is at rest
    /\ calendar_available = TRUE
    /\ busy = [p \in KnownCalendars |-> <<>>]
    /\ sreq = [via |-> "schedule", participants |-> <<>>,
               duration_minutes |-> 30, duration_type |-> "int",
               timezone |-> "UTC"]
    /\ now = 0
    /\ spc = "idle"
    /\ current_time = 0
    /\ end_time = 0
    /\ checked = {}
    /\ lookups = 0
    /\ visited = {}
    /\ last_check = None
    /\ result = None
    /\ sresp = None
    /\ runs = 0
    /\ earlier = <<>>
    \* no recurring meeting is being created
    /\ rpc = "idle"
    /\ rreq = [start_time |-> 0, duration_minutes |-> 30, preferred_days |-> <<>>,
               weeks |-> 0, tzinfo |-> "naive"]
    /\ rec_end_time = 0
    /\ base_date = 0
    /\ week = 0
    /\ day_index = 1
    /\ events = <<>>
    /\ created_events = <<>>
    /\ revent = None
    /\ rraised = None
    /\ rresult = None
    \* get_participant_availability is not running
    /\ apc = "idle"
    /\ areq = [participant |-> "a", start_date |-> 0, end_date |-> 0]
    /\ avail_busy_slots = <<>>
    /\ avail_current_time = 0
    /\ slot_index = 1
    /\ available_slots = <<>>
    /\ aresult = None
    \* the calendar service is at rest
    /\ cal_available = TRUE
    /\ cpc = "off"
    /\ creq = None
    /\ cresp = None
    /\ cpath = "none"
    /\ provider_calls = 0
    /\ served = 0
    /\ clock = 0
    \* the task manager is at rest
    /\ connectors = None
    /\ tasks = [id \in TaskIds |-> None]
    /\ lock = 0
    /\ tpc = [p \in Senders |-> "idle"]
    /\ tsend = [p \in Senders |-> "t1"]
    /\ response_text = [p \in Senders |-> None]
    /\ delegation = [p \in Senders |-> None]
    \* NumRequests requests to the orchestrator
    /\ impl \in [Requests -> {"host", "main"}]
    /\ request \in [Requests -> [updates : {<<>>, <<ClientUpdate>>}]]
    /\ \A r \in Requests : impl[r] = "main" => request[r].updates = <<>>
    /\ pc = [r \in Requests |-> "start"]
    /\ updates = [r \in Requests |-> <<>>]
    /\ inflight = {}
    /\ calls = [r \in Requests |-> <<>>]
    /\ schedData = [r \in Requests |-> None]
    /\ calData = [r \in Requests |-> None]
    /\ calArg = [r \in Requests |-> None]
    /\ response = [r \in Requests |-> None]

NextOrch ==
    \E r \in Requests :
        \/ HostCallScheduler(r)
        \/ HostSchedulerRaises(r)
        \/ \E reply \in SchedulerReplies \ {Fault} : HostSchedulerFailed(r, reply)
        \/ \E reply \in SchedulerReplies \ {Fault} : HostCallCalendar(r, reply)
        \/ HostCalendarRaises(r)
        \/ \E reply \in CalendarReplies \ {Fault} : HostCalendarFailed(r, reply)
        \/ \E reply \in CalendarReplies \ {Fault} : HostSucceeded(r, reply)
        \/ MainCallScheduler(r)
        \/ MainSchedulerRaises(r)
        \/ \E reply \in SchedulerReplies \ {Fault} : MainSchedulerFailed(r, reply)
        \/ \E reply \in SchedulerReplies \ {Fault} : MainCallCalendar(r, reply)
        \/ MainCalendarRaises(r)
        \/ \E reply \in CalendarReplies \ {Fault} : MainCalendarFailed(r, reply)
        \/ \E reply \in CalendarReplies \ {Fault} : MainSucceeded(r, reply)

InitCal ==
    \* the orchestrator is at rest
    /\ impl = [r \in Requests |-> "host"]
    /\ request = [r \in Requests |-> [updates |-> <<>>]]
    /\ pc = [r \in Requests |-> "idle"]
    /\ updates = [r \in Requests |-> <<>>]
    /\ inflight = {}
    /\ calls = [r \in Requests |-> <<>>]
    /\ schedData = [r \in Requests |-> None]
    /\ calData = [r \in Requests |-> None]
    /\ calArg = [r \in Requests |-> None]
    /\ response = [r \in Requests |-> None]
    \* the scheduler service is at rest
    /\ calendar_available = TRUE
    /\ busy = [p \in KnownCalendars |-> <<>>]
    /\ sreq = [via |-> "schedule", participants |-> <<>>,
               duration_minutes |-> 30, duration_type |-> "int",
               timezone |-> "UTC"]
    /\ now = 0
    /\ spc = "idle"
    /\ current_time = 0
    /\ end_time = 0
    /\ checked = {}
    /\ lookups = 0
    /\ visited = {}
    /\ last_check = None
    /\ result = None
    /\ sresp = None
    /\ runs = 0
    /\ earlier = <<>>
    \* no recurring meeting is being created
    /\ rpc = "idle"
    /\ rreq = [start_time |-> 0, duration_minutes |-> 30, preferred_days |-> <<>>,
               weeks |-> 0, tzinfo |-> "naive"]
    /\ rec_end_time = 0
    /\ base_date = 0
    /\ week = 0
    /\ day_index = 1
    /\ events = <<>>
    /\ created_events = <<>>
    /\ revent = None
    /\ rraised = None
    /\ rresult = None
    \* get_participant_availability is not running
    /\ apc = "idle"
    /\ areq = [participant |-> "a", start_date |-> 0, end_date |-> 0]
    /\ avail_busy_slots = <<>>
    /\ avail_current_time = 0
    /\ slot_index = 1
    /\ available_slots = <<>>
    /\ aresult = None
    \* the task manager is at rest
    /\ connectors = None
    /\ tasks = [id \in TaskIds |-> None]
    /\ lock = 0
    /\ tpc = [p \in Senders |-> "idle"]
    /\ tsend = [p \in Senders |-> "t1"]
    /\ response_text = [p \in Senders |-> None]
    /\ delegation = [p \in Senders |-> None]
    \* the calendar service is about to construct its CalendarAgent
    /\ cal_available = FALSE
    /\ cpc = "boot"
    /\ creq = None
    /\ cresp = None
    /\ cpath = "none"
    /\ provider_calls = 0
    /\ served = 0
    /\ clock \in 0..1

NextCal ==
    \/ \E auth \in {"ok", "FileNotFoundError", "error"} : CalendarAgentInit(auth)
    \/ \E req \in CreateMeetingRequests : CreateMeetingInvalidTimezone(req)
    \/ \E req \in CreateMeetingRequests : CreateMeetingUnavailable(req)
    \/ \E req \in CreateMeetingRequests,
          outcome \in {"event", "FileNotFoundError", "error"} :
            CreateMeetingAvailable(req, outcome)

InitTask ==
    \* the orchestrator's /schedule-meeting handler is at rest
    /\ impl = [r \in Requests |-> "host"]
    /\ request = [r \in Requests |-> [updates |-> <<>>]]
    /\ pc = [r \in Requests |-> "idle"]
    /\ updates = [r \in Requests |-> <<>>]
    /\ inflight = {}
    /\ calls = [r \in Requests |-> <<>>]
    /\ schedData = [r \in Requests |-> None]
    /\ calData = [r \in Requests |-> None]
    /\ calArg = [r \in Requests |-> None]
    /\ response = [r \in Requests |-> None]
    \* the scheduler service is at rest
    /\ calendar_available = TRUE
    /\ busy = [p \in KnownCalendars |-> <<>>]
    /\ sreq = [via |-> "schedule", participants |-> <<>>,
               duration_minutes |-> 30, duration_type |-> "int",
               timezone |-> "UTC"]
    /\ now = 0
    /\ spc = "idle"
    /\ current_time = 0
    /\ end_time = 0
    /\ checked = {}
    /\ lookups = 0
    /\ visited = {}
    /\ last_check = None
    /\ result = None
    /\ sresp = None
    /\ runs = 0
    /\ earlier = <<>>
    \* no recurring meeting is being created
    /\ rpc = "idle"
    /\ rreq = [start_time |-> 0, duration_minutes |-> 30, preferred_days |-> <<>>,
               weeks |-> 0, tzinfo |-> "naive"]
    /\ rec_end_time = 0
    /\ base_date = 0
    /\ week = 0
    /\ day_index = 1
    /\ events = <<>>
    /\ created_events = <<>>
    /\ revent = None
    /\ rraised = None
    /\ rresult = None
    \* get_participant_availability is not running
    /\ apc = "idle"
    /\ areq = [participant |-> "a", start_date |-> 0, end_date |-> 0]
    /\ avail_busy_slots = <<>>
    /\ avail_current_time = 0
    /\ slot_index = 1
    /\ available_slots = <<>>
    /\ aresult = None
    \* the calendar service is at rest
    /\ cal_available = TRUE
    /\ cpc = "off"
    /\ creq = None
    /\ cresp = None
    /\ cpath = "none"
    /\ provider_calls = 0
    /\ served = 0
    /\ clock = 0
    \* the orchestrator agent is about to be constructed; NumSends tasks/send
    \* requests will arrive
    /\ connectors = None
    /\ tasks = [id \in TaskIds |-> None]
    /\ lock = 0
    /\ tpc = [p \in Senders |-> "start"]
    /\ tsend \in [Senders -> TaskIds]
    /\ response_text = [p \in Senders |-> None]
    /\ delegation = [p \in Senders |-> None]

NextTask ==
    \/ \E agent_cards \in Registries : OrchestratorAgentInit(agent_cards)
    \/ \E p \in Senders : OnSendTaskUpsert(p)
    \/ \E p \in Senders : OnSendTaskInvokeCall(p)
    \/ \E p \in Senders, plan \in InvokePlans : OnSendTaskInvoke(p, plan)
    \/ \E p \in Senders : OnSendTaskSetStatus(p)
    \/ \E p \in Senders : OnSendTaskAppend(p)

\* Both services from the construction of their agents: the scheduler
\* answers one request MaxRuns times, the calendar MaxMeetings requests
GatewayMeetingRequests == { req \in CreateMeetingRequests : req.start_time = 600 }

InitGateway ==
    \* the orchestrator is at rest
    /\ impl = [r \in Requests |-> "host"]
    /\ request = [r \in Requests |-> [updates |-> <<>>]]
    /\ pc = [r \in Requests |-> "idle"]
    /\ updates = [r \in Requests |-> <<>>]
    /\ inflight = {}
    /\ calls = [r \in Requests |-> <<>>]
    /\ schedData = [r \in Requests |-> None]
    /\ calData = [r \in Requests |-> None]
    /\ calArg = [r \in Requests |-> None]
    /\ response = [r \in Requests |-> None]
    \* the task manager is at rest
    /\ connectors = None
    /\ tasks = [id \in TaskIds |-> None]
    /\ lock = 0
    /\ tpc = [p \in Senders |-> "idle"]
    /\ tsend = [p \in Senders |-> "t1"]
    /\ response_text = [p \in Senders |-> None]
    /\ delegation = [p \in Senders |-> None]
    \* the scheduler service is about to construct its SchedulerAgent
    /\ calendar_available = FALSE
    /\ busy = [p \in KnownCalendars |-> IF p = "a" THEN BusyAlways ELSE BusyNever]
    /\ sreq \in [via : {"schedule", "handle_task"},
                 participants : {<<"a">>},
                 duration_minutes : {30},
                 duration_type : {"int"},
                 timezone : {"UTC", "Mars/Phobos"}]
    /\ sreq.via = "handle_task" => sreq.timezone = "UTC"
    /\ now = At(5, 9, 45)
    /\ spc = "boot"
    /\ current_time = 0
    /\ end_time = 0
    /\ checked = {}
    /\ lookups = 0
    /\ visited = {}
    /\ last_check = None
    /\ result = None
    /\ sresp = None
    /\ runs = 0
    /\ earlier = <<>>
    \* no recurring meeting is being created
    /\ rpc = "idle"
    /\ rreq = [start_time |-> 0, duration_minutes |-> 30, preferred_days |-> <<>>,
               weeks |-> 0, tzinfo |-> "naive"]
    /\ rec_end_time = 0
    /\ base_date = 0
    /\ week = 0
    /\ day_index = 1
    /\ events = <<>>
    /\ created_events = <<>>
    /\ revent = None
    /\ rraised = None
    /\ rresult = None
    \* get_participant_availability is not running
    /\ apc = "idle"
    /\ areq = [participant |-> "a", start_date |-> 0, end_date |-> 0]
    /\ avail_busy_slots = <<>>
    /\ avail_current_time = 0
    /\ slot_index = 1
    /\ available_slots = <<>>
    /\ aresult = None
    \* the calendar service is about to construct its CalendarAgent
    /\ cal_available = FALSE
    /\ cpc = "boot"
    /\ creq = None
    /\ cresp = None
    /\ cpath = "none"
    /\ provider_calls = 0
    /\ served = 0
    /\ clock = 0

NextGateway ==
    \/ \E auth \in {"ok", "FileNotFoundError"} : SchedulerAgentInit(auth)
    \/ ScheduleValidate
    \/ HandleTask
    \/ FindStart
    \/ LoopExit
    \/ SkipNonBusinessHours
    \/ SkipWeekend
    \/ \E lookup \in {"ok", "raise"} : CheckCandidate(lookup)
    \/ ScheduleRespond
    \/ ScheduleAgain
    \/ \E auth \in {"ok", "FileNotFoundError"} : CalendarAgentInit(auth)
    \/ \E req \in GatewayMeetingRequests : CreateMeetingInvalidTimezone(req)
    \/ \E req \in GatewayMeetingRequests : CreateMeetingUnavailable(req)
    \/ \E req \in GatewayMeetingRequests,
          outcome \in {"event", "FileNotFoundError", "error"} :
            CreateMeetingAvailable(req, outcome)

\* ---------------------------------------------------------------------------
\* Specifications

\* The orchestrator serving NumRequests concurrent requests
\* ===========================================================================
\* Recurring meetings: CalendarAgent.create_recurring_meeting and
\* GoogleCalendarService.create_recurring_event.  A date is a number of days
\* from a Monday (date 0), a datetime the minutes from that Monday 00:00.

\* Bound on the number of weeks a caller asks for
MaxWeeks == 2

DayNames == {"Monday", "Tuesday", "Wednesday", "Thursday", "Friday",
             "Saturday", "Sunday"}

\* google_calendar_service.py lines 193-201
day_to_number(day) ==
    CASE day = "Monday" -> 0
      [] day = "Tuesday" -> 1
      [] day = "Wednesday" -> 2
      [] day = "Thursday" -> 3
      [] day = "Friday" -> 4
      [] day = "Saturday" -> 5
      [] day = "Sunday" -> 6

\* datetime.date(), datetime.time() and date.weekday()
DateOf(t) == t \div MinutesPerDay
TimeOf(t) == t % MinutesPerDay
DateWeekday(d) == d % 7

\* Mutant: the time of day is dropped
Combine_midnight(d, tod) == d * MinutesPerDay

\* datetime.combine(date, time)
Combine(d, tod) == d * MinutesPerDay + tod

\* Mutant: the anchor date is used when its weekday matches
BaseDate_onOrAfter(start_time, preferred_days) ==
    LET anchor == DateOf(start_time)
        days_ahead == day_to_number(preferred_days[1]) - DateWeekday(anchor)
    IN anchor + (IF days_ahead < 0 THEN days_ahead + 7 ELSE days_ahead)

\* lines 204-208: the base date, from the anchor and the first preferred day
BaseDate(start_time, preferred_days) ==
    LET anchor == DateOf(start_time)
        days_ahead == day_to_number(preferred_days[1]) - DateWeekday(anchor)
    IN anchor + (IF days_ahead <= 0 THEN days_ahead + 7 ELSE days_ahead)

\* lines 215-218: the date of one day of one week
EventDate(base, day, wk) ==
    LET days_ahead == day_to_number(day) - DateWeekday(base)
    IN base + (IF days_ahead < 0 THEN days_ahead + 7 ELSE days_ahead) + wk * 7

\* lines 221-249: the event body for the loop's current week and day.
\* tzinfo.localize keeps the wall-clock reading of the combined datetime.
CurrentEvent ==
    LET day == rreq.preferred_days[day_index]
        event_date == EventDate(base_date, day, week)
    IN [week |-> week, day |-> day, date |-> event_date,
        start |-> Combine(event_date, TimeOf(rreq.start_time)),
        end |-> Combine(event_date, TimeOf(rec_end_time))]

\* The arguments callers are drawn from.  tzinfo is the kind of the anchor's
\* tzinfo: none, a pytz zone, or a datetime.timezone (which has no localize).
AnchorStarts ==
    { Combine(d, tod) : d \in 0..6, tod \in {10 * MinutesPerHour,
                                             23 * MinutesPerHour + 30} }

PreferredDayChoices ==
    {<<>>} \cup { <<d>> : d \in DayNames }
           \cup { <<"Monday", "Wednesday">>, <<"Wednesday", "Monday">>,
                  <<"Friday", "Friday">> }

RecurringRequests ==
    [start_time : AnchorStarts, duration_minutes : {30, 60},
     preferred_days : PreferredDayChoices, weeks : 0..MaxWeeks,
     tzinfo : {"naive", "pytz", "fixed"}]

\* calendar_agent.py line 200, and the call of create_recurring_event
CreateRecurringMeeting ==
    /\ rpc = "call"
    /\ rec_end_time' = rreq.start_time + rreq.duration_minutes
    /\ rpc' = "base"
    /\ UNCHANGED <<rreq, base_date, week, day_index, events, created_events,
                   revent, rraised, rresult>>
    /\ UNCHANGED restOfRec

\* google_calendar_service.py lines 204-208 and the entry of the loops
RecurringBaseDate ==
    /\ rpc = "base"
    /\ rreq.preferred_days # <<>>
    /\ base_date' = BaseDate(rreq.start_time, rreq.preferred_days)
    /\ week' = 0
    /\ day_index' = 1
    /\ rpc' = "loop"
    /\ UNCHANGED <<rreq, rec_end_time, events, created_events, revent, rraised,
                   rresult>>
    /\ UNCHANGED restOfRec

\* line 205 with an empty preferred_days: preferred_days[0] raises
RecurringBaseDateRaises ==
    /\ rpc = "base"
    /\ rreq.preferred_days = <<>>
    /\ rraised' = Some("IndexError")
    /\ rpc' = "raised"
    /\ UNCHANGED <<rreq, rec_end_time, base_date, week, day_index, events,
                   created_events, revent, rresult>>
    /\ UNCHANGED restOfRec

\* lines 226-227: a tzinfo without localize raises outside the try
RecurringLocalizeRaises ==
    /\ rpc = "loop"
    /\ week < rreq.weeks
    /\ rreq.tzinfo = "fixed"
    /\ rraised' = Some("AttributeError")
    /\ rpc' = "raised"
    /\ UNCHANGED <<rreq, rec_end_time, base_date, week, day_index, events,
                   created_events, revent, rresult>>
    /\ UNCHANGED restOfRec

\* lines 212-257: one iteration whose insert succeeds
RecurringInsert ==
    /\ rpc = "loop"
    /\ week < rreq.weeks
    /\ rreq.tzinfo # "fixed"
    /\ events' = Append(events, CurrentEvent)
    /\ created_events' =
          Append(created_events, [id |-> Len(events) + 1, body |-> CurrentEvent])
    /\ IF day_index < Len(rreq.preferred_days)
          THEN /\ day_index' = day_index + 1
               /\ week' = week
          ELSE /\ day_index' = 1
               /\ week' = week + 1
    /\ UNCHANGED <<rpc, rreq, rec_end_time, base_date, revent, rraised, rresult>>
    /\ UNCHANGED restOfRec

\* lines 212-261: one iteration whose insert raises; the exception is re-raised
RecurringInsertRaises ==
    /\ rpc = "loop"
    /\ week < rreq.weeks
    /\ rreq.tzinfo # "fixed"
    /\ events' = Append(events, CurrentEvent)
    /\ rraised' = Some("HttpError")
    /\ rpc' = "raised"
    /\ UNCHANGED <<rreq, rec_end_time, base_date, week, day_index,
                   created_events, revent, rresult>>
    /\ UNCHANGED restOfRec

\* line 264: the loops are over
RecurringReturn ==
    /\ rpc = "loop"
    /\ week >= rreq.weeks
    /\ revent' = IF created_events # <<>> THEN Some(created_events[1]) ELSE None
    /\ rpc' = "service_returned"
    /\ UNCHANGED <<rreq, rec_end_time, base_date, week, day_index, events,
                   created_events, rraised, rresult>>
    /\ UNCHANGED restOfRec

\* calendar_agent.py lines 214-219: the result built from the event
CreateRecurringMeetingReturn ==
    /\ rpc = "service_returned"
    /\ IsSome(revent)
    /\ rresult' = Some([status |-> "success", meeting_id |-> The(revent).id])
    /\ rpc' = "returned"
    /\ UNCHANGED <<rreq, rec_end_time, base_date, week, day_index, events,
                   created_events, revent, rraised>>
    /\ UNCHANGED restOfRec

\* calendar_agent.py line 216 with event = None: event['id'] raises
CreateRecurringMeetingRaises ==
    /\ rpc = "service_returned"
    /\ revent = None
    /\ rraised' = Some("TypeError")
    /\ rpc' = "raised"
    /\ UNCHANGED <<rreq, rec_end_time, base_date, week, day_index, events,
                   created_events, revent, rresult>>
    /\ UNCHANGED restOfRec

InitRecurring ==
    \* the orchestrator is at rest
    /\ impl = [r \in Requests |-> "host"]
    /\ request = [r \in Requests |-> [updates |-> <<>>]]
    /\ pc = [r \in Requests |-> "idle"]
    /\ updates = [r \in Requests |-> <<>>]
    /\ inflight = {}
    /\ calls = [r \in Requests |-> <<>>]
    /\ schedData = [r \in Requests |-> None]
    /\ calData = [r \in Requests |-> None]
    /\ calArg = [r \in Requests |-> None]
    /\ response = [r \in Requests |-> None]
    \* the scheduler service is at rest
    /\ calendar_available = TRUE
    /\ busy = [p \in KnownCalendars |-> <<>>]
    /\ sreq = [via |-> "schedule", participants |-> <<>>,
               duration_minutes |-> 30, duration_type |-> "int",
               timezone |-> "UTC"]
    /\ now = 0
    /\ spc = "idle"
    /\ current_time = 0
    /\ end_time = 0
    /\ checked = {}
    /\ lookups = 0
    /\ visited = {}
    /\ last_check = None
    /\ result = None
    /\ sresp = None
    /\ runs = 0
    /\ earlier = <<>>
    \* the task manager is at rest
    /\ connectors = None
    /\ tasks = [id \in TaskIds |-> None]
    /\ lock = 0
    /\ tpc = [p \in Senders |-> "idle"]
    /\ tsend = [p \in Senders |-> "t1"]
    /\ response_text = [p \in Senders |-> None]
    /\ delegation = [p \in Senders |-> None]
    \* the calendar service is at rest
    /\ cal_available = TRUE
    /\ cpc = "off"
    /\ creq = None
    /\ cresp = None
    /\ cpath = "none"
    /\ provider_calls = 0
    /\ served = 0
    /\ clock = 0
    \* create_recurring_meeting has just been called
    /\ rpc = "call"
    /\ rreq \in RecurringRequests
    /\ rec_end_time = 0
    /\ base_date = 0
    /\ week = 0
    /\ day_index = 1
    /\ events = <<>>
    /\ created_events = <<>>
    /\ revent = None
    /\ rraised = None
    /\ rresult = None
    \* get_participant_availability is not running
    /\ apc = "idle"
    /\ areq = [participant |-> "a", start_date |-> 0, end_date |-> 0]
    /\ avail_busy_slots = <<>>
    /\ avail_current_time = 0
    /\ slot_index = 1
    /\ available_slots = <<>>
    /\ aresult = None

NextRecurring ==
    \/ CreateRecurringMeeting
    \/ RecurringBaseDate
    \/ RecurringBaseDateRaises
    \/ RecurringLocalizeRaises
    \/ RecurringInsert
    \/ RecurringInsertRaises
    \/ RecurringReturn
    \/ CreateRecurringMeetingReturn
    \/ CreateRecurringMeetingRaises

\* ===========================================================================
\* SchedulerAgent.get_participant_availability (scheduler_agent.py lines
\* 204-252): the free stretches between the busy intervals of one participant

\* What the provider holds for participant "a": nothing, one interval, two
\* apart, two that overlap, one inside another, two that touch, one that
\* starts before the window and one that ends after it
AvailabilityBusyLists ==
    { <<>>,
      << [start |-> At(0, 10, 0), end |-> At(0, 11, 0)] >>,
      << [start |-> At(0, 10, 0), end |-> At(0, 11, 0)],
         [start |-> At(0, 13, 0), end |-> At(0, 14, 0)] >>,
      << [start |-> At(0, 10, 0), end |-> At(0, 12, 0)],
         [start |-> At(0, 11, 0), end |-> At(0, 13, 0)] >>,
      << [start |-> At(0, 10, 0), end |-> At(0, 14, 0)],
         [start |-> At(0, 11, 0), end |-> At(0, 12, 0)] >>,
      << [start |-> At(0, 10, 0), end |-> At(0, 11, 0)],
         [start |-> At(0, 11, 0), end |-> At(0, 12, 0)] >>,
      << [start |-> At(0, 8, 0), end |-> At(0, 10, 0)] >>,
      << [start |-> At(0, 16, 0), end |-> At(0, 18, 0)] >> }

AvailabilityBusyChoices ==
    { [p \in KnownCalendars |-> IF p = "a" THEN l ELSE <<>>] :
        l \in AvailabilityBusyLists }

AvailabilityRequests ==
    [participant : {"a", "b", "zed"},
     start_date : {At(0, 9, 0), At(0, 10, 30)},
     end_date : {At(0, 12, 0), At(0, 17, 0)}]

\* lines 220-224 with get_free_busy raising: nothing catches it
GetFreeBusyRaises ==
    /\ apc = "call"
    /\ apc' = "raised"
    /\ UNCHANGED <<areq, avail_busy_slots, avail_current_time, slot_index,
                   available_slots, aresult>>
    /\ UNCHANGED schedVars
    /\ UNCHANGED restOfAvail

\* lines 220-227: the provider has no calendar for the participant
AvailabilityUnknownParticipant ==
    /\ apc = "call"
    /\ areq.participant \notin
          DOMAIN get_free_busy(areq.start_date, areq.end_date, <<areq.participant>>)
    /\ aresult' = Some(<<>>)
    /\ apc' = "returned"
    /\ UNCHANGED <<areq, avail_busy_slots, avail_current_time, slot_index, available_slots>>
    /\ UNCHANGED schedVars
    /\ UNCHANGED restOfAvail

\* lines 220-232: busy_slots of the participant, current_time = start_date
AvailabilityStart ==
    /\ apc = "call"
    /\ LET free_busy ==
             get_free_busy(areq.start_date, areq.end_date, <<areq.participant>>)
       IN /\ areq.participant \in DOMAIN free_busy
          /\ avail_busy_slots' = free_busy[areq.participant]
    /\ available_slots' = <<>>
    /\ avail_current_time' = areq.start_date
    /\ slot_index' = 1
    /\ apc' = "loop"
    /\ UNCHANGED <<areq, aresult>>
    /\ UNCHANGED schedVars
    /\ UNCHANGED restOfAvail

\* lines 233-243: one busy slot
AvailabilityNextSlot ==
    /\ apc = "loop"
    /\ slot_index <= Len(avail_busy_slots)
    /\ LET slot_start == avail_busy_slots[slot_index].start
           slot_end == avail_busy_slots[slot_index].end
       IN /\ available_slots' =
                IF avail_current_time < slot_start
                THEN Append(available_slots,
                            [start |-> avail_current_time, end |-> slot_start])
                ELSE available_slots
          /\ avail_current_time' = slot_end
    /\ slot_index' = slot_index + 1
    /\ UNCHANGED <<apc, areq, avail_busy_slots, aresult>>
    /\ UNCHANGED schedVars
    /\ UNCHANGED restOfAvail

\* lines 245-251: the stretch after the last busy slot, and the return
AvailabilityReturn ==
    /\ apc = "loop"
    /\ slot_index > Len(avail_busy_slots)
    /\ available_slots' =
          IF avail_current_time < areq.end_date
          THEN Append(available_slots,
                      [start |-> avail_current_time, end |-> areq.end_date])
          ELSE available_slots
    /\ aresult' = Some(available_slots')
    /\ apc' = "returned"
    /\ UNCHANGED <<areq, avail_busy_slots, avail_current_time, slot_index>>
    /\ UNCHANGED schedVars
    /\ UNCHANGED restOfAvail

InitAvail ==
    \* the orchestrator is at rest
    /\ impl = [r \in Requests |-> "host"]
    /\ request = [r \in Requests |-> [updates |-> <<>>]]
    /\ pc = [r \in Requests |-> "idle"]
    /\ updates = [r \in Requests |-> <<>>]
    /\ inflight = {}
    /\ calls = [r \in Requests |-> <<>>]
    /\ schedData = [r \in Requests |-> None]
    /\ calData = [r \in Requests |-> None]
    /\ calArg = [r \in Requests |-> None]
    /\ response = [r \in Requests |-> None]
    \* the scheduler service is at rest
    /\ calendar_available = TRUE
    /\ busy \in AvailabilityBusyChoices
    /\ sreq = [via |-> "schedule", participants |-> <<>>,
               duration_minutes |-> 30, duration_type |-> "int",
               timezone |-> "UTC"]
    /\ now = 0
    /\ spc = "idle"
    /\ current_time = 0
    /\ end_time = 0
    /\ checked = {}
    /\ lookups = 0
    /\ visited = {}
    /\ last_check = None
    /\ result = None
    /\ sresp = None
    /\ runs = 0
    /\ earlier = <<>>
    \* the task manager is at rest
    /\ connectors = None
    /\ tasks = [id \in TaskIds |-> None]
    /\ lock = 0
    /\ tpc = [p \in Senders |-> "idle"]
    /\ tsend = [p \in Senders |-> "t1"]
    /\ response_text = [p \in Senders |-> None]
    /\ delegation = [p \in Senders |-> None]
    \* the calendar service is at rest
    /\ cal_available = TRUE
    /\ cpc = "off"
    /\ creq = None
    /\ cresp = None
    /\ cpath = "none"
    /\ provider_calls = 0
    /\ served = 0
    /\ clock = 0
    \* no recurring meeting is being created
    /\ rpc = "idle"
    /\ rreq = [start_time |-> 0, duration_minutes |-> 30, preferred_days |-> <<>>,
               weeks |-> 0, tzinfo |-> "naive"]
    /\ rec_end_time = 0
    /\ base_date = 0
    /\ week = 0
    /\ day_index = 1
    /\ events = <<>>
    /\ created_events = <<>>
    /\ revent = None
    /\ rraised = None
    /\ rresult = None
    \* get_participant_availability has just been called
    /\ apc = "call"
    /\ areq \in AvailabilityRequests
    /\ avail_busy_slots = <<>>
    /\ avail_current_time = 0
    /\ slot_index = 1
    /\ available_slots = <<>>
    /\ aresult = None

NextAvail ==
    \/ GetFreeBusyRaises
    \/ AvailabilityUnknownParticipant
    \/ AvailabilityStart
    \/ AvailabilityNextSlot
    \/ AvailabilityReturn

Init == InitOrch
Next == NextOrch
Spec == Init /\ [][Next]_vars

\* The scheduler service serving one request
SpecSched == InitSched /\ [][NextSched]_vars

\* The calendar service from construction, serving MaxMeetings requests
SpecCal == InitCal /\ [][NextCal]_vars

\* What the handler of request r can do next
RequestStep(r) ==
    \/ HostCallScheduler(r)
    \/ HostSchedulerRaises(r)
    \/ \E reply \in SchedulerReplies \ {Fault} : HostSchedulerFailed(r, reply)
    \/ \E reply \in SchedulerReplies \ {Fault} : HostCallCalendar(r, reply)
    \/ HostCalendarRaises(r)
    \/ \E reply \in CalendarReplies \ {Fault} : HostCalendarFailed(r, reply)
    \/ \E reply \in CalendarReplies \ {Fault} : HostSucceeded(r, reply)
    \/ MainCallScheduler(r)
    \/ MainSchedulerRaises(r)
    \/ \E reply \in SchedulerReplies \ {Fault} : MainSchedulerFailed(r, reply)
    \/ \E reply \in SchedulerReplies \ {Fault} : MainCallCalendar(r, reply)
    \/ MainCalendarRaises(r)
    \/ \E reply \in CalendarReplies \ {Fault} : MainCalendarFailed(r, reply)
    \/ \E reply \in CalendarReplies \ {Fault} : MainSucceeded(r, reply)

\* The orchestrator with every delegate call coming back (answered or
\* raising) and the event loop resuming the handler that awaited it
SpecFair == Spec /\ \A r \in Requests : WF_vars(RequestStep(r))

\* The same, with the handler running to its end: the search is synchronous
\* code that nothing preempts
SpecSchedFair == SpecSched /\ WF_vars(NextSched)

\* The scheduler service answering one request several times over
SpecSchedAgain == InitSched /\ [][NextSchedAgain]_vars

\* The scheduler and calendar services, each from the construction of its
\* agent and gateway
SpecGateway == InitGateway /\ [][NextGateway]_vars

\* The task manager from the construction of the orchestrator agent, serving
\* NumSends tasks/send requests
SpecTask == InitTask /\ [][NextTask]_vars

\* The creation of one recurring meeting
SpecRecurring == InitRecurring /\ [][NextRecurring]_vars

\* One call of get_participant_availability
SpecAvail == InitAvail /\ [][NextAvail]_vars

\* ===========================================================================
\* Properties of the orchestrator

Finished(r) == pc[r] \in {"done", "raised"}

\* The records the handler appended after the client's own updates
Appended(r) == SubSeq(updates[r], Len(request[r].updates) + 1, Len(updates[r]))

\* C1: when the scheduler's reply has a status other than 200 or no true
\* success, the calendar delegate is not called for that request and the
\* response says success = false; and whenever the calendar delegate is
\* called, it is called with the slot of a successful scheduler reply.
C1_ShortCircuit ==
    \A r \in Requests :
        /\ (IsSome(schedData[r]) /\
              (The(schedData[r]).status_code # 200
                 \/ The(schedData[r]).body.success # Some(TRUE)))
             => /\ "calendar" \notin SeqRange(calls[r])
                /\ <<"calendar", r>> \notin inflight
                /\ IsSome(response[r])
                /\ The(response[r]).success = FALSE
        /\ "calendar" \in SeqRange(calls[r])
             => /\ IsSome(schedData[r])
                /\ The(schedData[r]).status_code = 200
                /\ The(schedData[r]).body.success = Some(TRUE)
                /\ IsSome(The(schedData[r]).body.start_time)
                /\ calArg[r] = Some([start_time |-> The(schedData[r]).body.start_time,
                                     end_time |-> The(schedData[r]).body.end_time])

\* C1 witness: a request ended after a scheduler reply with an error status
\* that nevertheless carried a slot, and another after success = false.
C1_Witness ==
    \E r, q \in Requests :
        /\ pc[r] = "done" /\ IsSome(schedData[r])
        /\ The(schedData[r]).status_code # 200
        /\ The(schedData[r]).body.success = Some(TRUE)
        /\ pc[q] = "done" /\ IsSome(schedData[q])
        /\ The(schedData[q]).status_code = 200
        /\ The(schedData[q]).body.success = Some(FALSE)

\* C2: within one request the scheduler call and the calendar call are never
\* in flight together, and the calendar call is made only once the
\* scheduler's reply has been received.
C2_Sequential ==
    \A r \in Requests :
        /\ ~(<<"scheduler", r>> \in inflight /\ <<"calendar", r>> \in inflight)
        /\ "calendar" \in SeqRange(calls[r]) => IsSome(schedData[r])
        /\ <<"calendar", r>> \in inflight => calls[r] = <<"scheduler", "calendar">>

\* C2 witness: calls of two different requests are in flight together, one at
\* the scheduler and one at the calendar.
C2_Witness ==
    \E r, q \in Requests :
        /\ r # q
        /\ <<"calendar", r>> \in inflight
        /\ <<"scheduler", q>> \in inflight

\* C3 (as claimed): once the handler has ended, whatever the outcome of its
\* delegate calls, the caller holds an updates trace with exactly one record
\* per delegate call made, in call order.
C3_EveryCallRecorded ==
    \A r \in Requests :
        Finished(r) =>
            /\ IsSome(response[r])
            /\ The(response[r]).updates = updates[r]
            /\ Len(Appended(r)) = Len(calls[r])
            /\ \A i \in 1..Len(calls[r]) : Appended(r)[i].agent_id = calls[r][i]

\* C18: a request that has left its start has called the scheduler exactly
\* once and the calendar at most once, after the scheduler; and a delegate's
\* reply, once received, is never replaced by that of another call.
C18_Calls ==
    \A r \in Requests :
        /\ pc[r] = "start" => calls[r] = <<>>
        /\ pc[r] # "start" => calls[r] \in {<<"scheduler">>, <<"scheduler", "calendar">>}

C18_ResultsKept ==
    \A r \in Requests :
        /\ IsSome(schedData[r]) => schedData'[r] = schedData[r]
        /\ IsSome(calData[r]) => calData'[r] = calData[r]
        /\ IsSome(response[r]) => response'[r] = response[r]

C18_NoRetry == []C18_Calls /\ [][C18_ResultsKept]_vars

\* C18 witness: one request ended on a failed scheduler call and another on
\* a failed calendar call, neither call having been made again.
C18_Witness ==
    \E r, q \in Requests :
        /\ pc[r] = "done" /\ calls[r] = <<"scheduler">>
        /\ ~The(response[r]).success
        /\ pc[q] = "done" /\ calls[q] = <<"scheduler", "calendar">>
        /\ ~The(response[q]).success

\* The delegate whose call ended request r without success, or "none"
FailingDelegate(r) ==
    IF pc[r] = "raised" THEN calls[r][Len(calls[r])]
    ELSE IF IsSome(calData[r]) /\ DelegateFailed(The(calData[r])) THEN "calendar"
    ELSE IF IsSome(schedData[r]) /\ DelegateFailed(The(schedData[r])) THEN "scheduler"
    ELSE "none"

\* What the failing delegate sent as its reply (Option)
FailingReply(r) ==
    IF pc[r] = "raised" THEN None
    ELSE IF FailingDelegate(r) = "calendar" THEN calData[r]
    ELSE schedData[r]

\* C19 (as claimed): when a delegate call fails, the caller gets a failure
\* response whose message is the one the delegate sent and whose last
\* update record names that delegate.
C19_FailureNamesDelegate ==
    \A r \in Requests :
        (Finished(r) /\ FailingDelegate(r) # "none") =>
            /\ IsSome(response[r])
            /\ ~The(response[r]).success
            /\ IsSome(FailingReply(r))
            /\ Some(The(response[r]).message) = The(FailingReply(r)).body.message
            /\ LET upd == The(response[r]).updates
               IN Len(upd) > 0 /\ upd[Len(upd)].agent_id = FailingDelegate(r)

\* The reply is an answer with status 200 and success = true
AnsweredOk(o) ==
    /\ IsSome(o)
    /\ The(o).status_code = 200
    /\ The(o).body.success = Some(TRUE)

\* C27: the slot posted to /create-meeting is the start/end the scheduler
\* returned; a success response carries that start/end and the calendar's
\* meeting_id; the response says success exactly when both delegates
\* answered with success; a failure response carries no meeting_id.
C27_AggregateConsistent ==
    \A r \in Requests :
        /\ IsSome(calArg[r]) =>
              /\ IsSome(schedData[r])
              /\ The(calArg[r]).start_time = The(schedData[r]).body.start_time
              /\ The(calArg[r]).end_time = The(schedData[r]).body.end_time
        /\ IsSome(response[r]) =>
              /\ The(response[r]).success <=>
                    (AnsweredOk(schedData[r]) /\ AnsweredOk(calData[r]))
              /\ The(response[r]).success =>
                    /\ The(response[r]).start_time = The(schedData[r]).body.start_time
                    /\ The(response[r]).end_time = The(schedData[r]).body.end_time
                    /\ The(response[r]).start_time = The(calArg[r]).start_time
                    /\ The(response[r]).end_time = The(calArg[r]).end_time
                    /\ The(response[r]).meeting_id = The(calData[r]).body.meeting_id
              /\ ~The(response[r]).success => The(response[r]).meeting_id = None

\* C27 witness: one request ended with success and the provider's event id,
\* and another with a failure after the calendar answered with an error
\* status and a body that carried a meeting_id.
C27_Witness ==
    \E r, q \in Requests :
        /\ pc[r] = "done" /\ The(response[r]).success
        /\ The(response[r]).meeting_id = Some("evt1")
        /\ pc[q] = "done" /\ ~The(response[q]).success
        /\ IsSome(calData[q])
        /\ IsSome(The(calData[q]).body.meeting_id)

\* ===========================================================================
\* Properties of the slot search

\* The start of the slot a successful search returned
ReturnedStart == FromIsoFormat(The(The(result).available_time))

Succeeded == IsSome(result) /\ The(result).status = "success"

\* A local time on a weekday with its hour in [9, 17)
WeekdayBusinessStart(t) ==
    /\ (t % 1440) \div 60 >= 9
    /\ (t % 1440) \div 60 < 17
    /\ (t \div 1440) % 7 \in 0..4

\* Some busy interval of a listed participant overlaps the local slot
\* [t, t + duration_minutes), by the provider's data
BusyOverlap(participants, st, en) ==
    \E k \in 1..Len(participants) :
        /\ participants[k] \in DOMAIN busy
        /\ \E i \in 1..Len(busy[participants[k]]) :
              /\ st < busy[participants[k]][i].end
              /\ en > busy[participants[k]][i].start

ConflictFree(t) ==
    ~BusyOverlap(sreq.participants,
                 t - UtcOffset(sreq.timezone),
                 t + sreq.duration_minutes - UtcOffset(sreq.timezone))

\* C4: a slot returned with status success starts on Monday..Friday at a
\* local hour h with 9 <= h < 17.
C4_BusinessHoursOnly ==
    Succeeded => WeekdayBusinessStart(ReturnedStart)

\* C4 witness: a search that skipped a weekend returned Monday 09:00, and
\* one returned the last business candidate of a Friday.
C4_Witness ==
    /\ Succeeded
    /\ \E c \in visited : (c \div 1440) % 7 >= 5
    /\ (ReturnedStart % 1440) \div 60 = 9
    /\ visited # {now}

\* C5: with the free/busy lookup answered, the availability check says
\* "not available" exactly when some busy interval b of a listed participant
\* has s < b.end and e > b.start; touching intervals are no conflict.
C5_ConflictIffOverlap ==
    (IsSome(last_check) /\ The(last_check).with_data) =>
        (The(last_check).answer =
            ~BusyOverlap(sreq.participants, The(last_check).start, The(last_check).end))

\* C5 witness: a candidate that ends where one busy interval starts and
\* starts where another ends was found available.
C5_Witness ==
    /\ IsSome(last_check)
    /\ The(last_check).with_data
    /\ The(last_check).answer
    /\ \E p, q \in DOMAIN busy :
         /\ p \in SeqRange(sreq.participants)
         /\ q \in SeqRange(sreq.participants)
         /\ \E i \in 1..Len(busy[p]) : busy[p][i].start = The(last_check).end
         /\ \E j \in 1..Len(busy[q]) : busy[q][j].end = The(last_check).start

\* C6: no candidate the search stepped through before the returned one was a
\* weekday business-hour start free of conflicts for all participants.
C6_FirstFeasible ==
    Succeeded =>
        \A c \in visited :
            (now <= c /\ c < ReturnedStart) =>
                ~(WeekdayBusinessStart(c) /\ ConflictFree(c))

\* C6 witness: the returned slot was preceded by weekday business-hour
\* candidates that conflicted, and is itself free of conflicts.
C6_Witness ==
    /\ Succeeded
    /\ ConflictFree(ReturnedStart)
    /\ Cardinality({c \in visited : c < ReturnedStart /\ WeekdayBusinessStart(c)}) >= 3

\* C7: the candidate time grows in every iteration, a returned slot starts in
\* [now, now + 7 days), the no-slot error is returned exactly when the loop
\* ran through the horizon without accepting a candidate, and the search ends.
C7_StepGrows ==
    (spc = "loop" /\ spc' = "loop") => current_time' > current_time

C7_Bounded ==
    /\ Succeeded => (now <= ReturnedStart /\ ReturnedStart < now + 7 * 1440)
    /\ (IsSome(result) /\ The(result) = NoSlotResult) =>
          /\ current_time >= now + 7 * 1440
          /\ \A c \in checked : c < now + 7 * 1440 /\ ~ConflictFree(c)
          /\ \A c \in visited :
                (c < now + 7 * 1440 /\ WeekdayBusinessStart(c)) => c \in checked
    /\ spc = "loop" => current_time < now + 7 * 1440 + 1440

C7_Terminates ==
    /\ []C7_Bounded
    /\ [][C7_StepGrows]_vars
    /\ <>(spc = "responded" \/ (spc = "returned" /\ sreq.via = "handle_task"))

\* C7 witness: a search ran through the whole horizon and reported no slot.
C7_Witness ==
    /\ IsSome(result)
    /\ The(result) = NoSlotResult
    /\ spc = "responded"
    /\ Cardinality(checked) > 7 * 8

\* C8: with the gateway unavailable, or the lookup raising, the candidate is
\* taken as available, the provider's busy data notwithstanding, and the
\* search returns it; with the gateway unavailable the search returns the
\* first weekday business-hour candidate (the timezone being known and the
\* duration a number).
C8_DegradeToAvailable ==
    /\ (IsSome(last_check) /\ ~The(last_check).with_data) =>
          /\ The(last_check).answer
          /\ Succeeded
          /\ ReturnedStart - UtcOffset(sreq.timezone) = The(last_check).start
    /\ (/\ ~calendar_available /\ IsSome(result)
        /\ sreq.timezone \in KnownZones /\ sreq.duration_type = "int") =>
          /\ Succeeded
          /\ lookups = 0
          /\ \A c \in visited : c < ReturnedStart => ~WeekdayBusinessStart(c)

\* C8 witness: a participant busy throughout, the gateway unavailable, and a
\* slot returned all the same.
C8_Witness ==
    /\ ~calendar_available
    /\ Succeeded
    /\ ~ConflictFree(ReturnedStart)
    /\ visited # {now}

\* C8 witness, second case: the lookup raised on a busy candidate.
C8_WitnessRaise ==
    /\ calendar_available
    /\ IsSome(last_check) /\ ~The(last_check).with_data
    /\ ~ConflictFree(ReturnedStart)

\* C11 (as claimed): a /schedule response whose slot was accepted without a
\* successful free/busy lookup carries the degraded-mode note in its message.
C11_AssumedAlwaysFlagged ==
    (/\ spc = "responded"
     /\ IsSome(sresp) /\ The(sresp).success
     /\ IsSome(last_check) /\ ~The(last_check).with_data)
        => SchedulingNote \in SeqRange(The(sresp).message)


\* C12 (as claimed): a /schedule request with an unknown timezone, no
\* participants or a non-positive duration is answered with a failure, and
\* no slot search is run for it.
C12_InvalidRejectedEarly ==
    (/\ sreq.via = "schedule"
     /\ \/ sreq.timezone \notin KnownZones
        \/ sreq.participants = <<>>
        \/ sreq.duration_minutes <= 0)
        => /\ spc \notin {"find", "loop", "returned"}
           /\ checked = {}
           /\ IsSome(sresp) => ~The(sresp).success

\* C20 (as claimed): one participant busy 10:00-10:30 every day, in the
\* request's timezone, and a 30-minute search that starts at 09:45 on a
\* weekday with every lookup answered: the slot returned starts at 10:30.
C20_ScenarioB ==
    (/\ Succeeded
     /\ calendar_available
     /\ sreq.timezone = "UTC"
     /\ sreq.participants = <<"a">>
     /\ sreq.duration_minutes = 30
     /\ busy["a"] = BusyAtTen /\ busy["b"] = BusyNever
     /\ now % 1440 = 9 * 60 + 45
     /\ (now \div 1440) % 7 < 5
     /\ IsSome(last_check) /\ The(last_check).with_data)
        => ReturnedStart = (now \div 1440) * 1440 + 10 * 60 + 30

\* No listed participant has a busy interval
NobodyBusy ==
    \A k \in 1..Len(sreq.participants) :
        sreq.participants[k] \in DOMAIN busy => busy[sreq.participants[k]] = <<>>

\* C21: when no participant has a busy interval, a search in a known
\* timezone for a duration that is a number ends with success, and the slot it returns starts at the first
\* candidate from 'now' on that is a weekday with its hour in [9, 17).
C21_ScenarioA ==
    (/\ IsSome(result) /\ NobodyBusy
     /\ sreq.timezone \in KnownZones /\ sreq.duration_type = "int") =>
        /\ Succeeded
        /\ ReturnedStart >= now
        /\ WeekdayBusinessStart(ReturnedStart)
        /\ ReturnedStart \in visited
        /\ \A c \in visited : c < ReturnedStart => ~WeekdayBusinessStart(c)

\* C21 witness: two participants without busy intervals, a search started on
\* a weekend with the lookup answered, and the following Monday returned.
C21_Witness ==
    /\ Succeeded
    /\ NobodyBusy
    /\ sreq.participants = <<"a", "b">>
    /\ IsSome(last_check) /\ The(last_check).with_data
    /\ (now \div 1440) % 7 >= 5
    /\ (ReturnedStart \div 1440) % 7 = 0

\* The search started on a Friday at 16:45
FridayLate == now % (7 * 1440) = 4 * 1440 + 16 * 60 + 45

\* The Monday 09:00 that follows 'now'
NextMondayNine == ((now \div (7 * 1440)) + 1) * 7 * 1440 + 9 * 60

\* C22: a candidate that starts at 16:45 on a weekday and is free of
\* conflicts is returned although it ends after 17:00; and a search started
\* on Friday 16:45 tests no instant between that candidate and Monday 09:00,
\* which is the next one it tests.
C22_StartGated ==
    /\ (/\ IsSome(result) /\ sreq.timezone \in KnownZones
        /\ sreq.duration_type = "int"
        /\ (now % 1440) = 16 * 60 + 45 /\ (now \div 1440) % 7 < 5
        /\ ConflictFree(now))
          => (Succeeded /\ ReturnedStart = now)
    /\ (FridayLate /\ spc \in {"loop", "returned", "responded"}) =>
          /\ \A c \in checked : c = now \/ c >= NextMondayNine
          /\ (checked \ {now} # {}) => NextMondayNine \in checked
          /\ (current_time > NextMondayNine) => {now, NextMondayNine} \subseteq checked

\* C22 witness: the Friday 16:45 candidate was in conflict, and the search
\* went on to Monday 09:00 and later candidates.
C22_Witness ==
    /\ FridayLate
    /\ Succeeded
    /\ IsSome(last_check) /\ The(last_check).with_data
    /\ {now, NextMondayNine} \subseteq checked
    /\ ReturnedStart > NextMondayNine

\* C22 witness, first case: Friday 16:45-17:45 was returned.
C22_WitnessAccepted ==
    /\ FridayLate
    /\ Succeeded
    /\ IsSome(last_check) /\ The(last_check).with_data
    /\ ReturnedStart = now
    /\ sreq.duration_minutes = 60

\* C23: a run of the search in which no lookup raised returns what every
\* earlier such run for the same request, clock reading and busy data
\* returned; and no step of the service changes the gateway flag or the
\* busy data.
C23_SameResult ==
    \A i \in 1..Len(earlier) :
        (IsSome(result) /\ AllLookupsAnswered) => The(result) = earlier[i]

C23_SearchKeepsState ==
    calendar_available' = calendar_available /\ busy' = busy

C23_Deterministic == []C23_SameResult /\ [][C23_SearchKeepsState]_vars

\* C23 witness: a second run, after a first in which every lookup was
\* answered, stepped over conflicting candidates and returned a slot.
C23_Witness ==
    /\ runs = 1
    /\ Len(earlier) = 1
    /\ calendar_available
    /\ Succeeded
    /\ IsSome(last_check) /\ The(last_check).with_data
    /\ Cardinality(checked) >= 3

\* C25: /schedule answers an unknown timezone and a search without result
\* with success = false, a message and neither start_time nor end_time; a
\* response with success = true has both start_time and end_time.
C25_ResponseShape ==
    IsSome(sresp) =>
        /\ The(sresp).success =>
              (IsSome(The(sresp).start_time) /\ IsSome(The(sresp).end_time))
        /\ ~The(sresp).success =>
              /\ The(sresp).message # <<>>
              /\ The(sresp).start_time = None
              /\ The(sresp).end_time = None
        /\ sreq.timezone \notin KnownZones => ~The(sresp).success
        /\ (IsSome(result) /\ The(result).status # "success") => ~The(sresp).success
        /\ Succeeded => The(sresp).success

\* C25 witness: a search that ran through the horizon was answered with
\* success = false and the no-slot message.
C25_Witness ==
    /\ IsSome(sresp)
    /\ ~The(sresp).success
    /\ IsSome(result) /\ The(result) = NoSlotResult
    /\ The(sresp).message = NoSlotResult.message

\* C25 witness, second case: an unknown timezone was refused.
C25_WitnessTimezone ==
    /\ IsSome(sresp)
    /\ ~The(sresp).success
    /\ sreq.timezone \notin KnownZones
    /\ result = None

\* C26 (as claimed): every success response of /schedule has its start_time
\* strictly before its end_time.
C26_StartBeforeEnd ==
    (IsSome(sresp) /\ The(sresp).success) =>
        The(The(sresp).start_time).wall - The(The(sresp).start_time).utcoffset
          < The(The(sresp).end_time).wall - The(The(sresp).end_time).utcoffset

\* ===========================================================================
\* Properties of the calendar service

IsMock(id) == IsSome(id) /\ The(id).prefix = "mock_meeting_"

Flagged(msg) == MockNote \in SeqRange(msg)

\* The request just answered found the gateway unavailable
ServedUnavailable ==
    /\ cpc = "responded"
    /\ ~cal_available
    /\ cpath \in {"unavailable", "invalid_timezone"}

\* C9 (as claimed): whenever the gateway is unavailable, /create-meeting
\* answers success = true with a mock_meeting_ identifier and the note.
C9_AlwaysSucceedsUnavailable ==
    ServedUnavailable =>
        /\ The(cresp).success = TRUE
        /\ IsMock(The(cresp).meeting_id)
        /\ Flagged(The(cresp).message)

\* C9 (amended): for a request whose timezone pytz knows, an unavailable
\* gateway still gives success = true, a mock_meeting_<timestamp> identifier
\* and the note in the message; and serving a request with the gateway
\* unavailable makes no call to the provider.
C9_Answer ==
    (ServedUnavailable /\ The(creq).timezone \in KnownZones) =>
        /\ The(cresp).success = TRUE
        /\ IsMock(The(cresp).meeting_id)
        /\ The(cresp).meeting_id = Some(MockMeetingId(clock - 1))
        /\ Flagged(The(cresp).message)

C9_NoProviderCall ==
    (cpc # "boot" /\ ~cal_available /\ served' = served + 1)
        => provider_calls' = provider_calls

C9_MockWhenUnavailable == []C9_Answer /\ [][C9_NoProviderCall]_vars

\* C9 witness: two requests in a row were answered with mock identifiers by
\* a service whose gateway never came up.
C9_Witness ==
    /\ cpath = "unavailable"
    /\ served = 2
    /\ provider_calls = 0
    /\ The(cresp).success

\* C10 (as claimed): every response that carries a mock_meeting_ identifier
\* has the degraded mode noted in its message.
C10_MockAlwaysFlagged ==
    (IsSome(cresp) /\ IsMock(The(cresp).meeting_id)) => Flagged(The(cresp).message)

\* ===========================================================================
\* Properties of the task manager

StatusOf(t) == IF t = None THEN "none" ELSE The(t).status

HistoryOf(t) == IF t = None THEN <<>> ELSE The(t).history

\* The edges of the task lifecycle; "none" is a task not yet created
LifecycleEdges ==
    { <<"none", "submitted">>, <<"submitted", "working">>,
      <<"working", "completed">>, <<"working", "failed">>, <<"working", "error">> }

LifecycleStep ==
    \A id \in TaskIds :
        \/ StatusOf(tasks'[id]) = StatusOf(tasks[id])
        \/ <<StatusOf(tasks[id]), StatusOf(tasks'[id])>> \in LifecycleEdges

\* C13 (as claimed): a task's status changes only along
\* Submitted -> Working -> {Completed, Failed, Error}, starting from Submitted
\* at creation; a terminal status is never left.
C13_Lifecycle == [][LifecycleStep]_vars

\* The delegation made for send p faulted: the agent name was not registered,
\* or the connector raised
DelegationFaulted(p) ==
    /\ IsSome(delegation[p])
    /\ \/ ~The(delegation[p]).known
       \/ The(delegation[p]).child = "raise"

\* C14 (as claimed): a send whose delegate call faulted leaves its task in
\* Error, and a task is Completed only by sends that obtained a result.
C14_FailuresReported ==
    \A p \in Senders :
        (tpc[p] = "done" /\ DelegationFaulted(p)) =>
            StatusOf(tasks[tsend[p]]) = "error"

\* Sends that have stored their user message / their reply in task id
Upserted(id) == { p \in Senders : tsend[p] = id /\ tpc[p] \notin {"idle", "start"} }
Replied(id) == { p \in Senders : tsend[p] = id /\ tpc[p] = "done" }

\* C15: no two sends are inside the locked status-and-history update at the
\* same time, a send inside it holds the lock, and no update is lost: the
\* history of a task holds the user message of every send that stored one
\* and the reply of every send that finished, and nothing else.
C15_Serialized ==
    /\ \A p, q \in Senders :
          (p # q /\ tpc[p] = "status_set") => (tpc[q] # "status_set" /\ lock = p)
    /\ \A id \in TaskIds :
          /\ Len(HistoryOf(tasks[id])) =
                Cardinality(Upserted(id)) + Cardinality(Replied(id))
          /\ \A p \in Upserted(id) : UserMessage(p) \in SeqRange(HistoryOf(tasks[id]))
          /\ \A p \in Replied(id) :
                AgentMessage(p, The(response_text[p])) \in SeqRange(HistoryOf(tasks[id]))

\* C15 witness: two sends on the same task id, one inside the locked update
\* and the other waiting for the lock with its reply ready.
C15_Witness ==
    \E p, q \in Senders :
        /\ p # q /\ tsend[p] = tsend[q]
        /\ tpc[p] = "status_set"
        /\ tpc[q] = "reply"

\* The position of message m in history h (0 when absent)
RECURSIVE IndexOf(_, _, _)
IndexOf(h, m, i) ==
    IF i > Len(h) THEN 0
    ELSE IF h[i] = m THEN i
    ELSE IndexOf(h, m, i + 1)

HistoryGrows ==
    \A id \in TaskIds :
        LET h == HistoryOf(tasks[id])
            g == HistoryOf(tasks'[id])
        IN Len(g) >= Len(h) /\ SubSeq(g, 1, Len(h)) = h

UserBeforeReply ==
    \A p \in Senders :
        tpc[p] = "done" =>
            LET h == HistoryOf(tasks[tsend[p]])
                u == IndexOf(h, UserMessage(p), 1)
                a == IndexOf(h, AgentMessage(p, The(response_text[p])), 1)
            IN u > 0 /\ u < a

\* C16: every step leaves the history of each task a prefix of its new
\* history, and the user message of a send precedes the reply to that send.
C16_AppendOnly == [][HistoryGrows]_vars /\ []UserBeforeReply

\* C16 witness: two sends on one task, both answered: four messages, the
\* user message of the second send stored before the reply to the first.
C16_Witness ==
    \E p, q \in Senders :
        /\ p # q /\ tsend[p] = tsend[q]
        /\ tpc[p] = "done" /\ tpc[q] = "done"
        /\ Len(HistoryOf(tasks[tsend[p]])) = 4
        /\ HistoryOf(tasks[tsend[p]])[2] = UserMessage(q)

\* C17 (as claimed): no orchestrator is constructed over a registry that
\* lacks a delegate, and no delegation ever names an unregistered agent.
C17_RegistryComplete ==
    /\ IsSome(connectors) => AgentNames \subseteq The(connectors)
    /\ \A p \in Senders : IsSome(delegation[p]) => The(delegation[p]).known

\* ===========================================================================
\* Properties of the two gateways over the life of their services

\* A flag that is False once its agent is constructed is False ever after
C24_StaysUnavailable ==
    /\ (spc # "boot" /\ ~calendar_available) => ~calendar_available'
    /\ (cpc # "boot" /\ ~cal_available) => ~cal_available'

\* With the flag False no step calls the provider
C24_NoProviderCall ==
    /\ (spc # "boot" /\ ~calendar_available) => lookups' <= lookups
    /\ (cpc # "boot" /\ ~cal_available) => provider_calls' = provider_calls

\* With the flag False a search in a known timezone returns a slot and a
\* creation with a known timezone answers with success
C24_Completes ==
    /\ (spc \in {"returned", "responded"} /\ ~calendar_available
           /\ sreq.timezone \in KnownZones)
          => (Succeeded /\ lookups = 0)
    /\ (cpc = "responded" /\ cpath = "unavailable") => The(cresp).success

\* C24: a gateway flag that is False after construction stays False in
\* every later state, and the searches and meeting creations that follow
\* complete without a call to the provider.
C24_UnavailableForLife ==
    /\ [][C24_StaysUnavailable /\ C24_NoProviderCall]_vars
    /\ []C24_Completes

\* C24 witness: both gateways failed to come up; the scheduler has answered
\* its second search and the calendar its second creation, no provider call
\* made.
C24_Witness ==
    /\ ~calendar_available /\ ~cal_available
    /\ runs = 1 /\ spc = "responded" /\ Succeeded
    /\ lookups = 0
    /\ served = 2 /\ cpath = "unavailable"
    /\ provider_calls = 0

\* ===========================================================================
\* Properties of the recurring meetings

\* create_recurring_event returned (every insert it made succeeded)
RecurringReturned ==
    \/ rpc \in {"service_returned", "returned"}
    \/ rpc = "raised" /\ rraised = Some("TypeError")

\* The Monday of the Monday-to-Sunday week a date lies in
MondayOf(d) == d - (d % 7)

\* C28: when every creation succeeded, the created occurrences are
\* weeks x len(preferred_days) many, one per (week, preferred day) pair in
\* week-major order following preferred_days, each with the anchor's start
\* and end time of day.
C28_OnePerWeekAndDay ==
    RecurringReturned =>
        LET n == Len(rreq.preferred_days)
        IN /\ Len(created_events) = rreq.weeks * n
           /\ events = [i \in 1..Len(created_events) |-> created_events[i].body]
           /\ \A i \in 1..Len(created_events) :
                LET e == created_events[i].body
                IN /\ e.week = (i - 1) \div n
                   /\ e.day = rreq.preferred_days[((i - 1) % n) + 1]
                   /\ DateWeekday(e.date) = day_to_number(e.day)
                   /\ DateOf(e.start) = e.date
                   /\ DateOf(e.end) = e.date
                   /\ TimeOf(e.start) = TimeOf(rreq.start_time)
                   /\ TimeOf(e.end) = TimeOf(rreq.start_time + rreq.duration_minutes)

\* C28 witness: two weeks of Wednesday and Monday, four occurrences created
\* at 10:00, and the call returned.
C28_Witness ==
    /\ rpc = "returned"
    /\ rreq.preferred_days = <<"Wednesday", "Monday">>
    /\ rreq.weeks = 2
    /\ Len(created_events) = 4
    /\ TimeOf(created_events[4].body.start) = 10 * MinutesPerHour
    /\ created_events[3].body.day = "Wednesday"
    /\ created_events[3].body.week = 1

\* C29 (as claimed): the first occurrence falls on the earliest date on or
\* after the anchor date whose weekday is preferred_days[0]: the anchor date
\* itself when its weekday already matches.
C29_FirstOnOrAfterAnchor ==
    events # <<>> =>
        LET anchor == DateOf(rreq.start_time)
            first == events[1].date
        IN /\ DateWeekday(first) = day_to_number(rreq.preferred_days[1])
           /\ first >= anchor
           /\ first - anchor < 7

\* C30 (as claimed): the week-0 date of every preferred day lies in the
\* Monday-to-Sunday week of the first occurrence, and the occurrence of week
\* k and day d is the week-0 date of d plus 7k days.
C30_SameWeekPlusSevenK ==
    \A i \in 1..Len(events) :
        LET n == Len(rreq.preferred_days)
            week0 == events[((i - 1) % n) + 1]
        IN /\ events[i].week = 0 =>
                MondayOf(events[i].date) = MondayOf(events[1].date)
           /\ events[i].date = week0.date + 7 * events[i].week

\* C31 (as claimed): the representative meeting is the first occurrence
\* created; when an insert fails no later occurrence is attempted and the
\* caller receives an error result that carries the occurrences created so
\* far.
C31_PartialListSurfaced ==
    /\ IsSome(rresult) =>
          (created_events # <<>> /\ The(rresult).meeting_id = created_events[1].id)
    /\ rraised = Some("HttpError") =>
          /\ Len(events) = Len(created_events) + 1
          /\ IsSome(rresult)
          /\ The(rresult).status = "error"

\* C32 (as claimed): whenever the candidate of the slot search falls on a
\* Saturday or Sunday, at any hour, the next candidate is the following day
\* at 09:00 and no availability check is made for it.
C32_WeekendJump ==
    [][(/\ spc = "loop"
        /\ current_time < end_time
        /\ Weekday(current_time) >= FirstWeekendDay)
          => /\ current_time' =
                  ((current_time \div MinutesPerDay) + 1) * MinutesPerDay
                      + BusinessStartHour * MinutesPerHour
             /\ checked' = checked]_vars

\* C33 (as claimed): a send holds the lock only inside the status-and-history
\* update, never while its orchestration runs; and while one send's
\* orchestration is waiting for its delegates, a send for another task whose
\* next step is a state mutation, with the lock free, can take that step.
C33_LockOnlyAroundMutation ==
    /\ \A p \in Senders : lock = p => tpc[p] = "status_set"
    /\ \A p, q \in Senders :
          (/\ tpc[p] = "invoking"
           /\ tsend[q] # tsend[p]
           /\ lock = 0)
             => /\ tpc[q] = "start" => ENABLED OnSendTaskUpsert(q)
                /\ tpc[q] = "reply" => ENABLED OnSendTaskSetStatus(q)

\* ===========================================================================
\* Properties of concurrent requests to the orchestrator

\* What the handler keeps for request r
OwnState(r) ==
    <<impl[r], request[r], pc[r], updates[r], calls[r], schedData[r],
      calData[r], calArg[r], response[r]>>

\* A step is taken by one request and leaves what the others keep alone
StepOfOneRequest ==
    \E r \in Requests :
        \A q \in Requests \ {r} : OwnState(q)' = OwnState(q)

\* The fields of a reply a request got, or of no reply
OwnSlot(r) ==
    IF IsSome(schedData[r])
    THEN [start_time |-> The(schedData[r]).body.start_time,
          end_time |-> The(schedData[r]).body.end_time]
    ELSE [start_time |-> None, end_time |-> None]

OwnMeetingId(r) ==
    IF IsSome(calData[r]) THEN The(calData[r]).body.meeting_id ELSE None

\* Every field of response r is taken from request r or from the replies
\* the delegates gave to request r
FromOwnData(r) ==
    LET resp == The(response[r])
        upd == resp.updates
        given == IF impl[r] = "host" THEN request[r].updates ELSE <<>>
    IN /\ resp.start_time \in {None, OwnSlot(r).start_time}
       /\ resp.end_time \in {None, OwnSlot(r).end_time}
       /\ resp.meeting_id \in {None, OwnMeetingId(r)}
       /\ resp.success => /\ resp.start_time = OwnSlot(r).start_time
                          /\ resp.end_time = OwnSlot(r).end_time
                          /\ resp.meeting_id = OwnMeetingId(r)
       /\ Len(upd) >= Len(given)
       /\ \A i \in 1..Len(upd) :
            IF i <= Len(given) THEN upd[i] = given[i]
            ELSE /\ upd[i].agent_id \in {"scheduler", "calendar"}
                 /\ upd[i].start_time \in {None, OwnSlot(r).start_time}
                 /\ upd[i].end_time \in {None, OwnSlot(r).end_time}
                 /\ upd[i].meeting_id \in {None, OwnMeetingId(r)}
                 /\ upd[i].agent_id = "scheduler" /\ IsSome(upd[i].error) =>
                        upd[i].error = The(schedData[r]).body.message
                 /\ upd[i].agent_id = "calendar" /\ IsSome(upd[i].error) =>
                        upd[i].error = The(calData[r]).body.message

C34_OwnResponses == \A r \in Requests : IsSome(response[r]) => FromOwnData(r)

\* C34: whatever the interleaving of the requests at their delegate calls,
\* a step of one request changes nothing another request keeps, and the
\* updates trace, slot and meeting_id of each response come from that
\* request's own input and its own delegates' replies.
C34_Isolated == [][StepOfOneRequest]_vars /\ []C34_OwnResponses

\* C34 witness: a request got its response, with its own slot and its own
\* client updates, while another request was suspended at its calendar call
\* with a different slot.
C34_Witness ==
    \E r, q \in Requests :
        /\ r # q
        /\ pc[r] = "done" /\ The(response[r]).success
        /\ pc[q] = "await_calendar"
        /\ The(calArg[q]) # The(calArg[r])
        /\ request[r].updates # request[q].updates
        /\ Len(The(response[r]).updates) = 3

\* C35: the updates of a response are the request's updates, unchanged and
\* in order, followed by at most one scheduler record and then at most one
\* calendar record; a calendar record comes right after a scheduler record
\* that reports a resolved slot.
C35_TraceShape ==
    \A r \in Requests :
        (IsSome(response[r]) /\ impl[r] = "host") =>
            LET upd == The(response[r]).updates
                given == request[r].updates
                n == Len(given)
            IN /\ Len(upd) >= n
               /\ Len(upd) <= n + 2
               /\ SubSeq(upd, 1, n) = given
               /\ Len(upd) > n => upd[n + 1].agent_id = "scheduler"
               /\ Len(upd) > n + 1 =>
                    /\ upd[n + 2].agent_id = "calendar"
                    /\ upd[n + 1].type = "data"
                    /\ IsSome(upd[n + 1].start_time)
                    /\ IsSome(upd[n + 1].end_time)
               /\ \A i \in (n + 1)..Len(upd) :
                    upd[i].agent_id = "calendar" => i = n + 2

\* C35 witness: a response whose trace is the client's update, the
\* scheduler's slot and the calendar's failure record; and another whose
\* trace ends with the scheduler's failure record.
C35_Witness ==
    \E r, q \in Requests :
        /\ IsSome(response[r]) /\ IsSome(response[q])
        /\ request[r].updates = <<ClientUpdate>>
        /\ Len(The(response[r]).updates) = 3
        /\ The(response[r]).updates[3].agent_id = "calendar"
        /\ IsSome(The(response[r]).updates[3].error)
        /\ impl[q] = "host"
        /\ Len(The(response[q]).updates) = Len(request[q].updates) + 1

\* C36: a request none of whose delegate calls raises (each comes back with
\* a response) eventually gets its response, a success or a failure.
C36_EventuallyResponds ==
    \A r \in Requests : ([](pc[r] # "raised")) => <>IsSome(response[r])

\* C36 witness: a request whose two delegate calls were both answered has
\* its response while the other request is still waiting for its scheduler.
C36_Witness ==
    \E r, q \in Requests :
        /\ pc[r] = "done"
        /\ calls[r] = <<"scheduler", "calendar">>
        /\ IsSome(response[r])
        /\ pc[q] = "await_scheduler"

\* ===========================================================================
\* Properties of the faults inside the slot search

\* C37: find_next_available_time never ends with an exception; a search
\* that met a fault (an unknown timezone, a duration that is no number)
\* returns a result with status error, a message and no slot.
C37_FaultsBecomeResults ==
    /\ spc # "raised"
    /\ (/\ IsSome(result)
        /\ (sreq.timezone \notin KnownZones \/ sreq.duration_type # "int"))
          => /\ The(result).status = "error"
             /\ The(result).message # <<>>
             /\ The(result).message[1] = "Error finding available time: "
             /\ The(result).available_time = None

\* C37 witness: the search of a task whose duration is no number walked to
\* its first business-hour candidate and returned the error result.
C37_Witness ==
    /\ spc = "returned"
    /\ sreq.duration_type # "int"
    /\ sreq.timezone \in KnownZones
    /\ current_time > now
    /\ result = Some(ErrorResult("TypeError"))

\* C37 witness, second case: the timezone was unknown to pytz.
C37_WitnessTimezone ==
    /\ spc = "returned"
    /\ sreq.timezone \notin KnownZones
    /\ result = Some(ErrorResult(sreq.timezone))

\* ===========================================================================
\* Properties of the occurrences of a recurring meeting

\* C38 (as claimed): every occurrence lasts as long as the anchor, so its
\* start is before its end whenever the anchor's is, also when the anchor
\* ends on the day after it starts.
C38_DurationKept ==
    \A i \in 1..Len(events) :
        /\ events[i].end - events[i].start = rec_end_time - rreq.start_time
        /\ rreq.start_time < rec_end_time => events[i].start < events[i].end

\* C39: every occurrence handed to the provider is for the preferred day the
\* loop stands at, falls on the weekday that day names, and on a date after
\* the anchor date.
C39_WeekdayAndAfterAnchor ==
    \A i \in 1..Len(events) :
        LET n == Len(rreq.preferred_days)
        IN /\ n > 0
           /\ events[i].day = rreq.preferred_days[((i - 1) % n) + 1]
           /\ events[i].date % 7 = day_to_number(events[i].day)
           /\ events[i].start \div MinutesPerDay = events[i].date
           /\ events[i].date > rreq.start_time \div MinutesPerDay

\* C39 witness: an anchor on a Wednesday, preferred days Wednesday and
\* Monday, two weeks: the first occurrence is the Wednesday a week after the
\* anchor and all four occurrences were handed over.
C39_Witness ==
    /\ rreq.preferred_days = <<"Wednesday", "Monday">>
    /\ (rreq.start_time \div MinutesPerDay) % 7 = 2
    /\ Len(events) = 4
    /\ events[1].date = (rreq.start_time \div MinutesPerDay) + 7
    /\ events[4].day = "Monday"

\* ===========================================================================
\* Properties of get_participant_availability

\* C40 (as claimed): the free slots returned lie inside [start_date,
\* end_date], each starts before it ends, they are in chronological order,
\* and none overlaps a busy interval the gateway reported, whatever the list
\* of busy intervals (overlapping and nested ones included).
C40_FreeSlotsSound ==
    IsSome(aresult) =>
        LET free == The(aresult)
        IN /\ \A i \in 1..Len(free) :
                /\ areq.start_date <= free[i].start
                /\ free[i].start < free[i].end
                /\ free[i].end <= areq.end_date
                /\ \A k \in 1..Len(avail_busy_slots) :
                      ~(/\ free[i].start < avail_busy_slots[k].end
                        /\ avail_busy_slots[k].start < free[i].end)
           /\ \A i \in 1..(Len(free) - 1) : free[i].end <= free[i + 1].start

====
